---- MODULE Spec2Model ----
(***************************************************************************)
(* A model of solana-sigverify: the offset codec of the native signature   *)
(* verification programs (native-sigverify/src/lib.rs), the SigHash digest *)
(* and the signatures account (sigverify/src/api.rs), the Update and Free  *)
(* instructions of the on-chain program (sigverify/src/program.rs) and the *)
(* verifier (sigverify/src/verifier.rs).                                   *)
(*                                                                         *)
(* Byte slices are sequences of 0..255; a Rust offset o is index o + 1.    *)
(* Option<T> is a sequence of length at most one: None is <<>> and Some(x) *)
(* is <<x>>.                                                               *)
(***************************************************************************)
EXTENDS Integers, Sequences, FiniteSets, TLC

VARIABLES
    entries,     \* codec: the entry list handed to new_instruction_data
    data,        \* codec: Option of the encoded instruction data
    parsed,      \* codec: Option of the results yielded by parse_data(data)
    payer,       \* lamports of the Payer account
    signatures,  \* the Signatures account: lamports, owner, data
    donor,       \* lamports of a third account, which signs its own transfers
    tx,          \* instructions the transaction being executed has run so far
    saved,       \* accounts as they were when the transaction started
    result,      \* result of the last instruction or store call
    log          \* what the last instruction or store call did

vars == <<entries, data, parsed, payer, signatures, donor, tx, saved, result, log>>

codecVars == <<entries, data, parsed>>
chainVars == <<payer, signatures, donor, tx, saved, result, log>>

----------------------------------------------------------------------------
(* Options and integers of fixed width.                                    *)

None == <<>>
Some(x) == <<x>>
IsSome(o) == Len(o) = 1
Unwrap(o) == o[1]

U16_MAX == 65535

\* `x as u16`
AsU16(x) == x % 65536

\* u16::to_le_bytes
U16ToLe(x) == <<x % 256, x \div 256>>

\* u16::from_le_bytes
U16FromLe(lo, hi) == lo + 256 * hi

\* slice::starts_with
StartsWith(xs, needle) ==
    /\ Len(needle) <= Len(xs)
    /\ SubSeq(xs, 1, Len(needle)) = needle

\* &xs[from..] with a 0-based `from` no larger than the length
Tail0(xs, from) == SubSeq(xs, from + 1, Len(xs))

----------------------------------------------------------------------------
(* native-sigverify: Entry and the bounded universe of entries.            *)

OFF_SIZE == 14
SIGNATURE_SIZE == 64
PUBKEY_SIZE == 32

Fill(n, b) == [i \in 1..n |-> b]

MkEntry(s, k, m) == [signature |-> s, pubkey |-> k, message |-> m]

SigA == Fill(SIGNATURE_SIZE, 17)
SigB == Fill(SIGNATURE_SIZE, 34)
KeyA == Fill(PUBKEY_SIZE, 1)
KeyB == Fill(PUBKEY_SIZE, 2)

Signatures == {SigA, SigB}
Pubkeys == {KeyA, KeyB}
\* the empty message, a message, and a message the previous one is a prefix of
Messages == {<<>>, <<7>>, <<7, 8>>}

Entries == {MkEntry(s, k, m) : s \in Signatures, k \in Pubkeys, m \in Messages}

\* longest entry list handed to the encoder
MaxEntries == 3

RECURSIVE SeqsUpTo(_, _)
SeqsUpTo(S, n) ==
    IF n = 0 THEN {<<>>}
    ELSE LET shorter == SeqsUpTo(S, n - 1)
         IN  shorter \cup {Append(xs, x) : xs \in {ys \in shorter : Len(ys) = n - 1}, x \in S}

----------------------------------------------------------------------------
(* native-sigverify: new_instruction_data and write_instruction_data.      *)

\* |ent| ent.message.starts_with(message): swapped, the later message only has
\* to start with the earlier one
MessageReusableSwapped(ent, e) == StartsWith(e.message, ent.message)

\* |ent| ent.message == message: only a whole earlier message is reused
MessageReusableWhole(ent, e) == ent.message = e.message

\* |ent| ent.message.starts_with(message)
MessageReusable(ent, e) == StartsWith(ent.message, e.message)

\* iter().position(pred), as an Option of a 1-based index; tests[i] is what
\* pred says of the i-th element
Position(tests) ==
    LET hits == {i \in 1..Len(tests) : tests[i]}
    IN  IF hits = {} THEN None
        ELSE Some(CHOOSE i \in hits : \A j \in hits : i <= j)

\* One iteration of the loop of write_instruction_data.  `offs` holds the
\* SignatureOffsets records written so far, `pool` the bytes appended after
\* the records.
WriteEntry(es, idx, offs, pool) ==
    LET e == es[idx]
        head == 2 + Len(es) * OFF_SIZE
        mpos == Position([i \in 1..(idx - 1) |-> MessageReusable(es[i], e)])
        message_offset ==
            IF IsSome(mpos)
            THEN U16FromLe(offs[Unwrap(mpos)][9], offs[Unwrap(mpos)][10])
            ELSE AsU16(head + Len(pool))
        pool1 == IF IsSome(mpos) THEN pool ELSE pool \o e.message
        signature_offset == AsU16(head + Len(pool1))
        pool2 == pool1 \o e.signature
        kpos == Position([i \in 1..(idx - 1) |-> es[i].pubkey = e.pubkey])
        pubkey_offset ==
            IF IsSome(kpos)
            THEN U16FromLe(offs[Unwrap(kpos)][5], offs[Unwrap(kpos)][6])
            ELSE AsU16(head + Len(pool2))
        pool3 == IF IsSome(kpos) THEN pool2 ELSE pool2 \o e.pubkey
        offsets ==
            U16ToLe(signature_offset) \o U16ToLe(U16_MAX) \o
            U16ToLe(pubkey_offset) \o U16ToLe(U16_MAX) \o
            U16ToLe(message_offset) \o U16ToLe(AsU16(Len(e.message))) \o
            U16ToLe(U16_MAX)
    IN  [offs |-> Append(offs, offsets), pool |-> pool3]

\* The iterations first..last of the loop, in order: those of the first
\* half, and once their records are written those of the second half.
RECURSIVE WriteEntries(_, _, _, _)
WriteEntries(es, first, last, done) ==
    IF Len(done.offs) # first - 1 \/ first > last THEN done
    ELSE IF first = last THEN WriteEntry(es, first, done.offs, done.pool)
    ELSE WriteEntries(es, (first + last) \div 2 + 1, last,
                      WriteEntries(es, first, (first + last) \div 2, done))

RECURSIVE Concat(_)
Concat(xss) ==
    IF xss = <<>> THEN <<>>
    ELSE IF Len(xss) = 1 THEN xss[1]
    ELSE Concat(SubSeq(xss, 1, Len(xss) \div 2))
             \o Concat(SubSeq(xss, Len(xss) \div 2 + 1, Len(xss)))

write_instruction_data(es) ==
    LET w == WriteEntries(es, 1, Len(es), [offs |-> <<>>, pool |-> <<>>])
    IN  <<Len(es) % 256, 0>> \o Concat(w.offs) \o w.pool

\* one iteration of the capacity loop with wrapping_add in the place of
\* checked_add
CapacityStep_wrapping(entry, capacity) ==
    IF Len(entry.message) > U16_MAX THEN None
    ELSE Some(AsU16(capacity + Len(entry.message)))

\* One iteration of the capacity loop of new_instruction_data: None if the
\* message is longer than u16::MAX or the sum leaves u16.
CapacityStep(entry, capacity) ==
    IF Len(entry.message) > U16_MAX THEN None
    ELSE IF capacity + Len(entry.message) > U16_MAX THEN None
    ELSE Some(capacity + Len(entry.message))

\* The iterations first..last of the capacity loop, in order; None ends
\* the loop.
RECURSIVE CapacityLoop(_, _, _, _)
CapacityLoop(es, first, last, capacity) ==
    IF capacity = None \/ first > last THEN capacity
    ELSE IF first = last THEN CapacityStep(es[first], Unwrap(capacity))
    ELSE CapacityLoop(es, (first + last) \div 2 + 1, last,
                      CapacityLoop(es, first, (first + last) \div 2, capacity))

new_instruction_data(es) ==
    IF Len(es) > 255 THEN None
    ELSE IF CapacityLoop(es, 1, Len(es), Some(AsU16(2 + (OFF_SIZE + 64 + 32) * Len(es)))) = None
    THEN None
    ELSE Some(write_instruction_data(es))

----------------------------------------------------------------------------
(* native-sigverify: parse_data, Iter and decode_entry.                    *)

Ok(e) == [tag |-> "Ok", entry |-> e]
UnsupportedFeature == [tag |-> "UnsupportedFeature"]
BadData == [tag |-> "BadData"]

\* get_array::<N>(data, offset)
get_array(bytes, n, offset) ==
    IF offset > Len(bytes) THEN None
    ELSE IF Len(bytes) - offset < n THEN None
    ELSE Some(SubSeq(bytes, offset + 1, offset + n))

\* decode_entry with the bounds checks before the instruction indices
decode_entry_bounds_first(bytes, entry) ==
    LET signature_offset == U16FromLe(entry[1], entry[2])
        signature_instruction_index == U16FromLe(entry[3], entry[4])
        pubkey_offset == U16FromLe(entry[5], entry[6])
        pubkey_instruction_index == U16FromLe(entry[7], entry[8])
        message_offset == U16FromLe(entry[9], entry[10])
        message_size == U16FromLe(entry[11], entry[12])
        message_instruction_index == U16FromLe(entry[13], entry[14])
        signature == get_array(bytes, SIGNATURE_SIZE, signature_offset)
        pubkey == get_array(bytes, PUBKEY_SIZE, pubkey_offset)
        message == get_array(bytes, message_size, message_offset)
    IN  IF signature = None \/ pubkey = None \/ message = None
        THEN BadData
        ELSE IF \/ signature_instruction_index # U16_MAX
                \/ pubkey_instruction_index # U16_MAX
                \/ message_instruction_index # U16_MAX
        THEN UnsupportedFeature
        ELSE Ok(MkEntry(Unwrap(signature), Unwrap(pubkey), Unwrap(message)))

decode_entry(bytes, entry) ==
    LET signature_offset == U16FromLe(entry[1], entry[2])
        signature_instruction_index == U16FromLe(entry[3], entry[4])
        pubkey_offset == U16FromLe(entry[5], entry[6])
        pubkey_instruction_index == U16FromLe(entry[7], entry[8])
        message_offset == U16FromLe(entry[9], entry[10])
        message_size == U16FromLe(entry[11], entry[12])
        message_instruction_index == U16FromLe(entry[13], entry[14])
        signature == get_array(bytes, SIGNATURE_SIZE, signature_offset)
        pubkey == get_array(bytes, PUBKEY_SIZE, pubkey_offset)
        message == get_array(bytes, message_size, message_offset)
    IN  IF \/ signature_instruction_index # U16_MAX
           \/ pubkey_instruction_index # U16_MAX
           \/ message_instruction_index # U16_MAX
        THEN UnsupportedFeature
        ELSE IF signature = None \/ pubkey = None \/ message = None
        THEN BadData
        ELSE Ok(MkEntry(Unwrap(signature), Unwrap(pubkey), Unwrap(message)))

\* parse_data that hands every whole record of the data to the iterator
parse_data_every_chunk(bytes) ==
    IF Len(bytes) < 2 THEN None
    ELSE IF bytes[2] # 0 THEN None
    ELSE LET count == bytes[1]
             chunks == (Len(bytes) - 2) \div OFF_SIZE
         IN  IF count > chunks THEN None
             ELSE Some([i \in 1..chunks |->
                          SubSeq(bytes, 3 + (i - 1) * OFF_SIZE, 2 + i * OFF_SIZE)])

\* parse_data: None stands for Err(BadData), Some(records) for the iterator
\* over the first `count` 14-byte records.
parse_data(bytes) ==
    IF Len(bytes) < 2 THEN None
    ELSE IF bytes[2] # 0 THEN None
    ELSE LET count == bytes[1]
             chunks == (Len(bytes) - 2) \div OFF_SIZE
         IN  IF count > chunks THEN None
             ELSE Some([i \in 1..count |->
                          SubSeq(bytes, 3 + (i - 1) * OFF_SIZE, 2 + i * OFF_SIZE)])

\* Collecting the iterator: one decode_entry result per record, in order.
IterCollect(bytes, records) == [i \in 1..Len(records) |-> decode_entry(bytes, records[i])]

----------------------------------------------------------------------------
(* u64 values are four 16-bit limbs, least significant first, so that sums *)
(* are taken at their real width.                                          *)

LIMB == 65536

U64Zero == <<0, 0, 0, 0>>
U64Max == <<65535, 65535, 65535, 65535>>

\* a small natural number as a u64
U64(n) == <<n % LIMB, (n \div LIMB) % LIMB, 0, 0>>

\* the sum modulo 2^64 and the carry out of the top limb
U64Sum(a, b) ==
    LET s1 == a[1] + b[1]
        s2 == a[2] + b[2] + s1 \div LIMB
        s3 == a[3] + b[3] + s2 \div LIMB
        s4 == a[4] + b[4] + s3 \div LIMB
    IN  [value |-> <<s1 % LIMB, s2 % LIMB, s3 % LIMB, s4 % LIMB>>, carry |-> s4 \div LIMB]

\* u64::checked_add
checked_add(a, b) == IF U64Sum(a, b).carry # 0 THEN None ELSE Some(U64Sum(a, b).value)

U64Less(a, b) ==
    \/ a[4] < b[4]
    \/ a[4] = b[4] /\ a[3] < b[3]
    \/ a[4] = b[4] /\ a[3] = b[3] /\ a[2] < b[2]
    \/ a[4] = b[4] /\ a[3] = b[3] /\ a[2] = b[2] /\ a[1] < b[1]

\* a - b for b <= a
U64Diff(a, b) ==
    LET d1 == LIMB + a[1] - b[1]
        d2 == LIMB + a[2] - b[2] - (1 - d1 \div LIMB)
        d3 == LIMB + a[3] - b[3] - (1 - d2 \div LIMB)
        d4 == LIMB + a[4] - b[4] - (1 - d3 \div LIMB)
    IN  <<d1 % LIMB, d2 % LIMB, d3 % LIMB, d4 % LIMB>>

\* u64::saturating_sub
saturating_sub(a, b) == IF U64Less(a, b) THEN U64Zero ELSE U64Diff(a, b)

----------------------------------------------------------------------------
(* sigverify/src/algo.rs: the magics and the native program ids.  A Pubkey  *)
(* is a tuple: a well-known address is the one-element tuple of its base58 *)
(* text, an account's key is its 32 bytes.                                 *)

ED25519_PROGRAM_ID == <<"Ed25519SigVerify111111111111111111111111111">>
SECP256K1_PROGRAM_ID == <<"KeccakSecp256k11111111111111111111111111111">>
SECP256R1_PROGRAM_ID == <<"Secp256r1SigVerify1111111111111111111111111">>
SYSTEM_PROGRAM_ID == <<"11111111111111111111111111111111">>
SYSVAR_INSTRUCTIONS_ID == <<"Sysvar1nstructions1111111111111111111111111">>

\* u32::from_le_bytes
U32FromLe(b) == b[1] + 256 * b[2] + 65536 * b[3] + 16777216 * b[4]

\* u32::to_le_bytes
U32ToLe(x) == <<x % 256, (x \div 256) % 256, (x \div 65536) % 256, x \div 16777216>>

\* b"ed\xff\x13", b"s\x00k1" and b"s\x00r1"
ED25519_MAGIC == U32FromLe(<<101, 100, 255, 19>>)
SECP256K1_MAGIC == U32FromLe(<<115, 0, 107, 49>>)
SECP256R1_MAGIC == U32FromLe(<<115, 0, 114, 49>>)

\* from_id with the first two arms exchanged
from_id_swapped(id) ==
    IF id = ED25519_PROGRAM_ID THEN Some(SECP256K1_MAGIC)
    ELSE IF id = SECP256K1_PROGRAM_ID THEN Some(ED25519_MAGIC)
    ELSE IF id = SECP256R1_PROGRAM_ID THEN Some(SECP256R1_MAGIC)
    ELSE None

\* from_id that takes an unknown program for the first algorithm
from_id_defaulting(id) ==
    IF id = SECP256K1_PROGRAM_ID THEN Some(SECP256K1_MAGIC)
    ELSE IF id = SECP256R1_PROGRAM_ID THEN Some(SECP256R1_MAGIC)
    ELSE Some(ED25519_MAGIC)

from_id(id) ==
    IF id = ED25519_PROGRAM_ID THEN Some(ED25519_MAGIC)
    ELSE IF id = SECP256K1_PROGRAM_ID THEN Some(SECP256K1_MAGIC)
    ELSE IF id = SECP256R1_PROGRAM_ID THEN Some(SECP256R1_MAGIC)
    ELSE None

\* Algorithm::program_id and Algorithm::magic, by the name of the algorithm
Algorithms == {"Ed25519", "Secp256k1", "Secp256r1"}

program_id(algo) ==
    CASE algo = "Ed25519" -> ED25519_PROGRAM_ID
      [] algo = "Secp256k1" -> SECP256K1_PROGRAM_ID
      [] algo = "Secp256r1" -> SECP256R1_PROGRAM_ID

magic(algo) ==
    CASE algo = "Ed25519" -> ED25519_MAGIC
      [] algo = "Secp256k1" -> SECP256K1_MAGIC
      [] algo = "Secp256r1" -> SECP256R1_MAGIC

----------------------------------------------------------------------------
(* sigverify/src/api.rs: SigHash.                                          *)
(*                                                                         *)
(* A 32-byte digest is the natural number its bytes spell, most            *)
(* significant byte first: byte order on digests is numeric order.  The    *)
(* hash is a weighted sum of the input bytes modulo a prime, plus one; it  *)
(* is one-to-one on the inputs of this model (HashInjective), and zero is  *)
(* the slot made of zero bytes.                                            *)

HASH_MODULUS == 999983

\* the weight of the byte at position i
HashWeight(i) == 1 + ((i * i * 31 + i * 7919) % 4093)

RECURSIVE HashRange(_, _, _)
HashRange(bytes, lo, hi) ==
    IF lo > hi THEN 0
    ELSE IF lo = hi THEN (bytes[lo] + 1) * HashWeight(lo)
    ELSE LET mid == (lo + hi) \div 2
         IN  (HashRange(bytes, lo, mid) + HashRange(bytes, mid + 1, hi)) % HASH_MODULUS

\* solana_program::hash::hashv over the concatenated slices
hashv(bytes) == 1 + ((HashRange(bytes, 1, Len(bytes)) + 8191 * Len(bytes)) % HASH_MODULUS)

\* SigHash::new
\* the slices without the magic
HashInput_without_magic(mgc, pubkey, signature, message) == pubkey \o signature \o message

\* the slices SigHash::new hands to hashv, one after the other
HashInput(mgc, pubkey, signature, message) == U32ToLe(mgc) \o pubkey \o signature \o message

SigHash_new(mgc, pubkey, signature, message) ==
    hashv(HashInput(mgc, pubkey, signature, message))

\* SigHash::from_entry
SigHash_from_entry(mgc, entry) ==
    SigHash_new(mgc, entry.pubkey, entry.signature, entry.message)

----------------------------------------------------------------------------
(* sigverify/src/api.rs: the signatures account.                           *)
(*                                                                         *)
(* An account is [lamports, owner, len, epoch, count, slots, fill]: len is  *)
(* the length of its data in bytes, epoch and count are the header's        *)
(* epoch_le and count_le, slots are the 32-byte chunks after the header up  *)
(* to the last one the record spells out, and every chunk after those      *)
(* holds fill: zero bytes in an account that has only grown, a digest in    *)
(* an account that the same digest has filled.                              *)

HEAD_SIZE == 12
SIGHASH_SIZE == 32

Done(v) == [res |-> "Ok", val |-> v]
Fail(e) == [res |-> e]
\* an error, with the accounts as the failed call left them
FailWith(e, v) == [res |-> e, val |-> v]

\* the number of whole chunks as_chunks finds after the header
Chunks(len) == (len - HEAD_SIZE) \div SIGHASH_SIZE

\* the chunk at a 0-based index
SlotAt(acc, i) == IF i < Len(acc.slots) THEN acc.slots[i + 1] ELSE acc.fill

\* the first n chunks
FirstSlots(acc, n) == [i \in 1..n |-> SlotAt(acc, i - 1)]

\* get_count with the epoch test left out
get_count_any_epoch(acc, want_epoch) == acc.count

\* get_count that always starts over
get_count_zero(acc, want_epoch) == 0

\* Header::get_count
get_count(acc, want_epoch) ==
    IF IsSome(want_epoch) /\ Unwrap(want_epoch) # acc.epoch THEN 0 ELSE acc.count

\* read_count that never looks at the epoch
read_count_ignoring_epoch(acc, want_epoch) ==
    IF acc.len < HEAD_SIZE THEN Fail("AccountDataTooSmall")
    ELSE Done(acc.count)

\* SignaturesAccount::read_count
read_count(acc, want_epoch) ==
    IF acc.len < HEAD_SIZE THEN Fail("AccountDataTooSmall")
    ELSE Done(get_count(acc, want_epoch))

\* the values of a sequence
Range(xs) == {xs[i] : i \in 1..Len(xs)}

\* how many elements are below a value, and how many are not above it
Below(xs, v) == Cardinality({i \in 1..Len(xs) : xs[i] < v})
NotAbove(xs, v) == Cardinality({i \in 1..Len(xs) : xs[i] <= v})

\* sort_unstable left out: the chunks stay as they were written
sort_unstable_skipped(xs) == xs

\* slice::sort_unstable: the elements in ascending order, so that the k-th
\* is the value with fewer than k elements below it and at least k not above
sort_unstable(xs) ==
    [k \in 1..Len(xs) |->
        CHOOSE v \in Range(xs) : Below(xs, v) < k /\ k <= NotAbove(xs, v)]

\* Header::set that writes the count only
Header_set_keeping_epoch(acc, epoch, count) == [acc EXCEPT !.count = count]

\* Header::set
Header_set(acc, epoch, count) ==
    [acc EXCEPT !.epoch = IF IsSome(epoch) THEN Unwrap(epoch) ELSE @, !.count = count]

\* write_count_and_sort that sorts the chunks there are before it fails
write_count_and_sort_sorting_what_fits(acc, epoch, count) ==
    IF acc.len < HEAD_SIZE THEN FailWith("AccountDataTooSmall", acc)
    ELSE IF count > Chunks(acc.len)
    THEN FailWith("AccountDataTooSmall",
                  [acc EXCEPT !.slots = sort_unstable(FirstSlots(acc, Chunks(acc.len)))])
    ELSE LET sorted == sort_unstable(FirstSlots(acc, count))
             rest == IF Len(acc.slots) > count
                     THEN SubSeq(acc.slots, count + 1, Len(acc.slots))
                     ELSE <<>>
         IN  Done(Header_set([acc EXCEPT !.slots = sorted \o rest], epoch, count))

\* write_count_and_sort that never lowers the count of the header
write_count_and_sort_never_lowering(acc, epoch, count) ==
    IF acc.len < HEAD_SIZE THEN FailWith("AccountDataTooSmall", acc)
    ELSE IF count > Chunks(acc.len) THEN FailWith("AccountDataTooSmall", acc)
    ELSE LET kept == IF acc.count > count /\ acc.count <= Chunks(acc.len)
                     THEN acc.count ELSE count
             sorted == sort_unstable(FirstSlots(acc, kept))
             rest == IF Len(acc.slots) > kept
                     THEN SubSeq(acc.slots, kept + 1, Len(acc.slots))
                     ELSE <<>>
         IN  Done(Header_set([acc EXCEPT !.slots = sorted \o rest], epoch, kept))

\* SignaturesAccount::write_count_and_sort: the account as the call leaves
\* it, also when it fails
write_count_and_sort(acc, epoch, count) ==
    IF acc.len < HEAD_SIZE THEN FailWith("AccountDataTooSmall", acc)
    ELSE IF count > Chunks(acc.len) THEN FailWith("AccountDataTooSmall", acc)
    ELSE LET sorted == sort_unstable(FirstSlots(acc, count))
             rest == IF Len(acc.slots) > count
                     THEN SubSeq(acc.slots, count + 1, Len(acc.slots))
                     ELSE <<>>
         IN  Done(Header_set([acc EXCEPT !.slots = sorted \o rest], epoch, count))

\* copy_from_slice into the chunk at a 0-based index
WriteSlot(acc, index, signature) ==
    IF index < Len(acc.slots)
    THEN [acc EXCEPT !.slots[index + 1] = signature]
    ELSE [acc EXCEPT !.slots = @ \o Fill(index - Len(@), acc.fill) \o <<signature>>]

\* write_signature that also enlarges an account that is just long enough
write_signature_enlarging_early(w, index, signature, enlarged) ==
    LET end == index * SIGHASH_SIZE + HEAD_SIZE + SIGHASH_SIZE
        grown == IF w.signatures.len <= end THEN enlarged ELSE Done(w)
    IN  IF grown.res # "Ok" THEN grown
        ELSE IF grown.val.signatures.len < end THEN FailWith("AccountDataTooSmall", grown.val)
        ELSE Done([grown.val EXCEPT
                     !.signatures = WriteSlot(@, index, signature),
                     !.log = Append(@, <<"write", index, signature>>)])

\* SignaturesAccount::write_signature on the accounts w = [payer, signatures,
\* log]; enlarged is what the enlarge closure returns if it is called:
\* Done(accounts) or FailWith(error, accounts).  The offsets of a u32 index
\* stay far below usize::MAX, so the range is Some.
write_signature(w, index, signature, enlarged) ==
    LET end == index * SIGHASH_SIZE + HEAD_SIZE + SIGHASH_SIZE
        grown == IF w.signatures.len < end THEN enlarged ELSE Done(w)
    IN  IF grown.res # "Ok" THEN grown
        ELSE IF grown.val.signatures.len < end THEN FailWith("AccountDataTooSmall", grown.val)
        ELSE Done([grown.val EXCEPT
                     !.signatures = WriteSlot(@, index, signature),
                     !.log = Append(@, <<"write", index, signature>>)])

\* slice::binary_search(..).is_ok(): the loop of core::slice::binary_search_by
RECURSIVE BinarySearchLoop(_, _, _, _)
BinarySearchLoop(xs, x, base, size) ==
    IF size > 1
    THEN LET half == size \div 2
             mid == base + half
         IN  BinarySearchLoop(xs, x, IF xs[mid + 1] > x THEN base ELSE mid, size - half)
    ELSE xs[base + 1] = x

binary_search(xs, x) == IF Len(xs) = 0 THEN FALSE ELSE BinarySearchLoop(xs, x, 0, Len(xs))

\* find_sighash that searches every chunk of the data
find_sighash_searching_all_slots(acc, signature) ==
    IF acc.len < HEAD_SIZE THEN Fail("AccountDataTooSmall")
    ELSE IF acc.count > Chunks(acc.len) THEN Fail("InvalidAccountData")
    ELSE Done(binary_search(FirstSlots(acc, Chunks(acc.len)), signature))

\* find_sighash
find_sighash(acc, signature) ==
    IF acc.len < HEAD_SIZE THEN Fail("AccountDataTooSmall")
    ELSE IF acc.count > Chunks(acc.len) THEN Fail("InvalidAccountData")
    ELSE Done(binary_search(FirstSlots(acc, acc.count), signature))

\* SignaturesAccount::find
find(acc, mgc, pubkey, signature, message) ==
    find_sighash(acc, SigHash_new(mgc, pubkey, signature, message))

----------------------------------------------------------------------------
(* sigverify/src/verifier.rs: Verifier.                                    *)

\* the loop with UnsupportedFeature treated like every other error
RECURSIVE NativeScan_strict(_, _, _)
NativeScan_strict(items, i, entry) ==
    IF i > Len(items) THEN Done(FALSE)
    ELSE IF items[i].tag = "Ok"
    THEN IF items[i].entry = entry THEN Done(TRUE) ELSE NativeScan_strict(items, i + 1, entry)
    ELSE Fail("BadData")

\* the loop of check_native_data over the decoded records
RECURSIVE NativeScan(_, _, _)
NativeScan(items, i, entry) ==
    IF i > Len(items) THEN Done(FALSE)
    ELSE IF items[i].tag = "Ok"
    THEN IF items[i].entry = entry THEN Done(TRUE) ELSE NativeScan(items, i + 1, entry)
    ELSE IF items[i].tag = "UnsupportedFeature" THEN NativeScan(items, i + 1, entry)
    ELSE Fail("BadData")

check_native_data(bytes, entry) ==
    IF parse_data(bytes) = None THEN Fail("BadData")
    ELSE NativeScan(IterCollect(bytes, Unwrap(parse_data(bytes))), 1, entry)

\* check_sigverify_data with the magic of Ed25519 whatever the algorithm
check_sigverify_data_one_magic(acc, mgc, entry) ==
    IF find_sighash(acc, SigHash_from_entry(ED25519_MAGIC, entry)).res = "Ok"
    THEN find_sighash(acc, SigHash_from_entry(ED25519_MAGIC, entry))
    ELSE Fail("BadData")

check_sigverify_data(acc, mgc, entry) ==
    IF find_sighash(acc, SigHash_from_entry(mgc, entry)).res = "Ok"
    THEN find_sighash(acc, SigHash_from_entry(mgc, entry))
    ELSE Fail("BadData")

\* verify that asks the account before the instruction data
verify_account_first(algo, native_data, sigverify_data, message, pubkey, signature) ==
    LET entry == MkEntry(signature, pubkey, message)
        stored == IF IsSome(sigverify_data)
                  THEN check_sigverify_data(Unwrap(sigverify_data), magic(algo), entry)
                  ELSE Done(FALSE)
    IN  IF stored.res # "Ok" THEN stored
        ELSE IF stored.val THEN Done(TRUE)
        ELSE IF IsSome(native_data)
        THEN check_native_data(Unwrap(native_data), entry)
        ELSE Done(FALSE)

\* Verifier<Algo>::verify; native_data is an Option of instruction data and
\* sigverify_data an Option of the attached account
verify(algo, native_data, sigverify_data, message, pubkey, signature) ==
    LET entry == MkEntry(signature, pubkey, message)
        native == IF IsSome(native_data)
                  THEN check_native_data(Unwrap(native_data), entry)
                  ELSE Done(FALSE)
    IN  IF native.res # "Ok" THEN native
        ELSE IF native.val THEN Done(TRUE)
        ELSE IF IsSome(sigverify_data)
        THEN check_sigverify_data(Unwrap(sigverify_data), magic(algo), entry)
        ELSE Done(FALSE)

\* set_sigverify_account without the check of the owner
set_sigverify_account_unchecked(acc, expected_owner) == Done(Some(acc))

\* Verifier::set_sigverify_account: the attached account, or the error
set_sigverify_account(acc, expected_owner) ==
    IF acc.owner = expected_owner THEN Done(Some(acc)) ELSE Fail("InvalidAccountOwner")

----------------------------------------------------------------------------
(* What the program uses of the runtime: rent, the system program, account *)
(* resizing, the instructions sysvar and program derived addresses.        *)

\* the program id of the sigverify program
PROGRAM_ID == <<"SigVerify1111111111111111111111111111111111">>

MAX_PERMITTED_DATA_INCREASE == 10240
MAX_PERMITTED_DATA_LENGTH == 10485760
MAX_SEED_LEN == 32

ACCOUNT_STORAGE_OVERHEAD == 128
\* lamports per byte-year times the exemption threshold of two years
LAMPORTS_PER_BYTE == 6960

\* an account that does not exist: no lamports, no data, the system program
NoAccount ==
    [lamports |-> U64Zero, owner |-> SYSTEM_PROGRAM_ID, len |-> 0,
     epoch |-> Fill(8, 0), count |-> 0, slots |-> <<>>, fill |-> 0]

\* Rent::minimum_balance, for sizes below 2^24
minimum_balance(size) ==
    LET n == ACCOUNT_STORAGE_OVERHEAD + size
        low == (n % LIMB) * LAMPORTS_PER_BYTE
        high == (n \div LIMB) * LAMPORTS_PER_BYTE + low \div LIMB
    IN  <<low % LIMB, high % LIMB, high \div LIMB, 0>>

\* system_instruction::create_account of the signatures account, paid by the
\* payer and signed with the seeds of the address
create_account(w, lamports, space, owner) ==
    IF \/ w.signatures.lamports # U64Zero
       \/ w.signatures.len # 0
       \/ w.signatures.owner # SYSTEM_PROGRAM_ID
    THEN FailWith("AccountAlreadyInUse", w)
    ELSE IF space > MAX_PERMITTED_DATA_LENGTH THEN FailWith("InvalidAccountDataLength", w)
    ELSE IF U64Less(w.payer, lamports) THEN FailWith("InsufficientFunds", w)
    ELSE Done([w EXCEPT
                 !.payer = U64Diff(@, lamports),
                 !.signatures = [NoAccount EXCEPT !.lamports = lamports, !.owner = owner,
                                                  !.len = space],
                 !.log = Append(@, <<"create_account", space>>)])

\* system_instruction::transfer from the payer to the signatures account
transfer(w, lamports) ==
    IF U64Less(w.payer, lamports) THEN FailWith("InsufficientFunds", w)
    ELSE IF checked_add(w.signatures.lamports, lamports) = None
    THEN FailWith("ArithmeticOverflow", w)
    ELSE Done([w EXCEPT
                 !.payer = U64Diff(@, lamports),
                 !.signatures.lamports = Unwrap(checked_add(@, lamports)),
                 !.log = Append(@, <<"transfer", lamports>>)])

\* the account data cut to new_len bytes
Truncated(acc, new_len) ==
    IF new_len < HEAD_SIZE
    THEN [acc EXCEPT !.len = new_len, !.epoch = Fill(8, 0), !.count = 0, !.slots = <<>>,
                     !.fill = 0]
    ELSE [acc EXCEPT !.len = new_len,
                     !.slots = IF Len(@) > Chunks(new_len) THEN SubSeq(@, 1, Chunks(new_len)) ELSE @]

\* the account data with zero bytes added up to new_len bytes
Extended(acc, new_len) ==
    IF acc.fill = 0 \/ acc.len < HEAD_SIZE THEN [acc EXCEPT !.len = new_len]
    ELSE [acc EXCEPT !.len = new_len, !.slots = FirstSlots(acc, Chunks(acc.len)), !.fill = 0]

\* AccountInfo::resize: new bytes are zero, and the data may not grow past
\* what it was when the instruction started by more than 10 KiB
resize(w, new_len) ==
    IF new_len > w.original_data_len + MAX_PERMITTED_DATA_INCREASE
    THEN FailWith("InvalidRealloc", w)
    ELSE IF new_len >= w.signatures.len
    THEN Done([w EXCEPT !.signatures = Extended(@, new_len)])
    ELSE Done([w EXCEPT !.signatures = Truncated(@, new_len)])

\* whether the hash of the seeds and the program id is a point of the curve,
\* in which case it is no program derived address
OnCurve(bytes, pid) == hashv(bytes) % 2 = 1

\* Pubkey::create_program_address: an Option of the address
create_program_address(seeds, pid) ==
    IF \E i \in 1..Len(seeds) : Len(seeds[i]) > MAX_SEED_LEN THEN None
    ELSE IF OnCurve(Concat(seeds), pid) THEN None
    ELSE Some(<<"ProgramDerivedAddress", pid, Concat(seeds)>>)

\* Pubkey::try_find_program_address: the bumps from 255 down, u8::MAX of
\* them; a seed that is too long ends the search
RECURSIVE FindBump(_, _, _)
FindBump(seeds, pid, bump) ==
    IF bump = 0 THEN None
    ELSE IF create_program_address(Append(seeds, <<bump>>), pid) # None
    THEN Some(<<Unwrap(create_program_address(Append(seeds, <<bump>>), pid)), bump>>)
    ELSE IF \E i \in 1..Len(seeds) : Len(seeds[i]) > MAX_SEED_LEN THEN None
    ELSE FindBump(seeds, pid, bump - 1)

try_find_program_address(seeds, pid) == FindBump(seeds, pid, 255)

\* Pubkey::find_program_address, where it does not panic
find_program_address(seeds, pid) == Unwrap(try_find_program_address(seeds, pid))

\* instructions::get_instruction_relative(-1, ix_sysvar); sysvar is the
\* transaction as the instructions sysvar shows it: [instructions, current]
get_instruction_relative_skipping_one(account, sysvar) ==
    IF account.key # SYSVAR_INSTRUCTIONS_ID THEN Fail("UnsupportedSysvar")
    ELSE IF sysvar.current - 2 < 0 THEN Fail("InvalidArgument")
    ELSE Done(sysvar.instructions[sysvar.current - 1])

get_instruction_relative(account, sysvar) ==
    IF account.key # SYSVAR_INSTRUCTIONS_ID THEN Fail("UnsupportedSysvar")
    ELSE IF sysvar.current - 1 < 0 THEN Fail("InvalidArgument")
    ELSE Done(sysvar.instructions[sysvar.current])

\* Verifier<Algo>::set_ix_sysvar: the instruction data to attach, or the
\* error
set_ix_sysvar(algo, account, sysvar) ==
    IF get_instruction_relative(account, sysvar).res # "Ok"
    THEN get_instruction_relative(account, sysvar)
    ELSE IF get_instruction_relative(account, sysvar).val.program_id = program_id(algo)
    THEN Done(Some(get_instruction_relative(account, sysvar).val.data))
    ELSE Fail("IncorrectProgramId")

----------------------------------------------------------------------------
(* sigverify/src/program.rs.  The accounts an instruction works on are     *)
(* w = [payer, signatures, original_data_len, log]: the lamports of the    *)
(* Payer account, the Signatures account, the length of its data when the  *)
(* instruction started, and the calls made so far.  An instruction names   *)
(* its accounts as [key, is_signer, is_writable].                          *)

\* read::<1, _>(instruction, u8::from_le_bytes)
read(bytes) == IF Len(bytes) < 1 THEN None ELSE Some(bytes[1])

\* write_seeds with the key of the payer after the seed
write_seeds_seed_first(payer_key, seed_and_bump) == <<seed_and_bump, payer_key>>

\* Context::write_seeds
write_seeds(payer_key, seed_and_bump) == <<payer_key, seed_and_bump>>

\* Context::get with the writable test of the Payer before the signer test
Context_get_checking_writable_first(pid, accounts, instruction) ==
    IF Len(accounts) < 2 THEN Fail("NotEnoughAccountKeys")
    ELSE IF ~accounts[1].is_writable THEN Fail("InvalidAccountData")
    ELSE IF ~accounts[1].is_signer THEN Fail("MissingRequiredSignature")
    ELSE IF ~accounts[2].is_writable THEN Fail("InvalidAccountData")
    ELSE IF read(instruction) = None THEN Fail("InvalidInstructionData")
    ELSE LET seed_len == Unwrap(read(instruction))
             rest == Tail(instruction)
         IN  IF Len(rest) < seed_len + 1 THEN Fail("InvalidInstructionData")
             ELSE LET seed_and_bump == SubSeq(rest, 1, seed_len + 1)
                      pda == create_program_address(
                                 write_seeds(accounts[1].key, seed_and_bump), pid)
                  IN  IF pda = Some(accounts[2].key)
                      THEN Done([program_id |-> pid,
                                 payer |-> accounts[1],
                                 signatures |-> accounts[2],
                                 seed_and_bump |-> seed_and_bump,
                                 accounts |-> Tail0(accounts, 2),
                                 instruction |-> Tail0(rest, seed_len + 1)])
                      ELSE Fail("InvalidSeeds")

\* Context::get that does not ask for the signature of the payer
Context_get_unsigned(pid, accounts, instruction) ==
    IF Len(accounts) < 2 THEN Fail("NotEnoughAccountKeys")
    ELSE IF ~accounts[1].is_writable THEN Fail("InvalidAccountData")
    ELSE IF ~accounts[2].is_writable THEN Fail("InvalidAccountData")
    ELSE IF read(instruction) = None THEN Fail("InvalidInstructionData")
    ELSE LET seed_len == Unwrap(read(instruction))
             rest == Tail(instruction)
         IN  IF Len(rest) < seed_len + 1 THEN Fail("InvalidInstructionData")
             ELSE LET seed_and_bump == SubSeq(rest, 1, seed_len + 1)
                      pda == create_program_address(
                                 write_seeds(accounts[1].key, seed_and_bump), pid)
                  IN  IF pda = Some(accounts[2].key)
                      THEN Done([program_id |-> pid,
                                 payer |-> accounts[1],
                                 signatures |-> accounts[2],
                                 seed_and_bump |-> seed_and_bump,
                                 accounts |-> Tail0(accounts, 2),
                                 instruction |-> Tail0(rest, seed_len + 1)])
                      ELSE Fail("InvalidSeeds")

\* Context::get: the context and what is left of the accounts and the data
Context_get(pid, accounts, instruction) ==
    IF Len(accounts) < 2 THEN Fail("NotEnoughAccountKeys")
    ELSE IF ~accounts[1].is_signer THEN Fail("MissingRequiredSignature")
    ELSE IF ~accounts[1].is_writable THEN Fail("InvalidAccountData")
    ELSE IF ~accounts[2].is_writable THEN Fail("InvalidAccountData")
    ELSE IF read(instruction) = None THEN Fail("InvalidInstructionData")
    ELSE LET seed_len == Unwrap(read(instruction))
             rest == Tail(instruction)
         IN  IF Len(rest) < seed_len + 1 THEN Fail("InvalidInstructionData")
             ELSE LET seed_and_bump == SubSeq(rest, 1, seed_len + 1)
                      pda == create_program_address(
                                 write_seeds(accounts[1].key, seed_and_bump), pid)
                  IN  IF pda = Some(accounts[2].key)
                      THEN Done([program_id |-> pid,
                                 payer |-> accounts[1],
                                 signatures |-> accounts[2],
                                 seed_and_bump |-> seed_and_bump,
                                 accounts |-> Tail0(accounts, 2),
                                 instruction |-> Tail0(rest, seed_len + 1)])
                      ELSE Fail("InvalidSeeds")

\* initialise_signatures_account funding the account as if it held no data
initialise_signatures_account_underfunded(ctx, w) ==
    IF w.signatures.lamports # U64Zero THEN Done(w)
    ELSE create_account(w, minimum_balance(0), MAX_PERMITTED_DATA_INCREASE, ctx.program_id)

\* Context::initialise_signatures_account
initialise_signatures_account(ctx, w) ==
    IF w.signatures.lamports # U64Zero THEN Done(w)
    ELSE create_account(w, minimum_balance(MAX_PERMITTED_DATA_INCREASE),
                        MAX_PERMITTED_DATA_INCREASE, ctx.program_id)

\* free_signatures_account that leaves the balance of the Signatures account
free_signatures_account_keeping_balance(w) ==
    IF checked_add(w.payer, w.signatures.lamports) = None
    THEN FailWith("ArithmeticOverflow", w)
    ELSE Done([w EXCEPT
                 !.payer = Unwrap(checked_add(w.payer, w.signatures.lamports)),
                 !.log = Append(@, <<"free">>)])

\* free_signatures_account that stops before assign and resize
free_signatures_account_keeping_data(w) ==
    IF checked_add(w.payer, w.signatures.lamports) = None
    THEN FailWith("ArithmeticOverflow", w)
    ELSE Done([w EXCEPT
                 !.payer = Unwrap(checked_add(w.payer, w.signatures.lamports)),
                 !.signatures.lamports = U64Zero,
                 !.log = Append(@, <<"free">>)])

\* Context::free_signatures_account
free_signatures_account(w) ==
    IF checked_add(w.payer, w.signatures.lamports) = None
    THEN FailWith("ArithmeticOverflow", w)
    ELSE resize([w EXCEPT
                   !.payer = Unwrap(checked_add(w.payer, w.signatures.lamports)),
                   !.signatures.lamports = U64Zero,
                   !.signatures.owner = SYSTEM_PROGRAM_ID,
                   !.log = Append(@, <<"free">>)],
                0)

Min(a, b) == IF a <= b THEN a ELSE b

\* enlarge_signatures_account resizing whether or not the transfer was made
ResizeIfPaid_or_not(paid, size) ==
    [res |-> paid.res, val |-> resize(paid.val, size).val]

\* enlarge_signatures_account once the transfer, if any, is made
ResizeIfPaid(paid, size) == IF paid.res # "Ok" THEN paid ELSE resize(paid.val, size)

\* the transfer of the lamports the larger account lacks
TransferMissing(w, lamports) == IF lamports # U64Zero THEN transfer(w, lamports) ELSE Done(w)

\* EnlargeTo reporting an error when the account cannot grow
EnlargeTo_failing_at_maximum(w, size) ==
    IF size <= w.signatures.len THEN FailWith("InvalidRealloc", w)
    ELSE ResizeIfPaid(
             TransferMissing(w, saturating_sub(minimum_balance(size), w.signatures.lamports)),
             size)

\* enlarge_signatures_account once the new size is known
EnlargeTo(w, size) ==
    IF size <= w.signatures.len THEN Done(w)
    ELSE ResizeIfPaid(
             TransferMissing(w, saturating_sub(minimum_balance(size), w.signatures.lamports)),
             size)

\* enlarge_signatures_account growing the account by one slot
enlarge_signatures_account_by_one_slot(w) ==
    EnlargeTo([w EXCEPT !.log = Append(@, <<"enlarge">>)],
              Min(w.signatures.len + SIGHASH_SIZE, MAX_PERMITTED_DATA_LENGTH))

\* Context::enlarge_signatures_account
enlarge_signatures_account(w) ==
    EnlargeTo([w EXCEPT !.log = Append(@, <<"enlarge">>)],
              Min(w.signatures.len + MAX_PERMITTED_DATA_INCREASE, MAX_PERMITTED_DATA_LENGTH))

\* count.checked_add(1) fails at u32::MAX
IsU32Max(count) == count \div LIMB = LIMB - 1 /\ count % LIMB = LIMB - 1

\* the closure, were it to leave out a digest the account already holds
UpdateCallback_skipping_duplicates(st, written) ==
    IF written.res = "Ok" /\ \E i \in 0..(st.count - 1) :
                                 SlotAt(st.w.signatures, i) = SlotAt(written.val.signatures, st.count)
    THEN st
    ELSE IF written.res # "Ok" THEN [res |-> written.res, w |-> written.val, count |-> st.count]
    ELSE [res |-> "Ok", w |-> written.val, count |-> st.count + 1]

\* the closure handle_update hands to process_verify_instruction, once
\* write_signature has returned; st = [res, w, count]
UpdateCallback(st, written) ==
    IF written.res # "Ok" THEN [res |-> written.res, w |-> written.val, count |-> st.count]
    ELSE IF IsU32Max(st.count)
    THEN [res |-> "ArithmeticOverflow", w |-> written.val, count |-> st.count]
    ELSE [res |-> "Ok", w |-> written.val, count |-> st.count + 1]

\* the match of process_verify_instruction with BadData let through as
\* UnsupportedFeature is
MatchEntry_lenient(item, mgc, st) ==
    IF item.tag = "Ok"
    THEN UpdateCallback(st, write_signature(st.w, st.count,
                                            SigHash_from_entry(mgc, item.entry),
                                            enlarge_signatures_account(st.w)))
    ELSE st

\* the match of process_verify_instruction on one decoded record
MatchEntry(item, mgc, st) ==
    IF item.tag = "Ok"
    THEN UpdateCallback(st, write_signature(st.w, st.count,
                                            SigHash_from_entry(mgc, item.entry),
                                            enlarge_signatures_account(st.w)))
    ELSE IF item.tag = "UnsupportedFeature" THEN st
    ELSE [st EXCEPT !.res = "InvalidInstructionData"]

\* Iterator::try_for_each: it stops at the first error
RECURSIVE try_for_each(_, _, _, _)
try_for_each(items, i, mgc, st) ==
    IF i > Len(items) \/ st.res # "Ok" THEN st
    ELSE try_for_each(items, i + 1, mgc, MatchEntry(items[i], mgc, st))

\* process_verify_instruction once the program is known and the data parsed
ForEachRecord(bytes, mgc, records, st) ==
    IF records = None THEN [st EXCEPT !.res = "InvalidInstructionData"]
    ELSE try_for_each(IterCollect(bytes, Unwrap(records)), 1, mgc, st)

\* process_verify_instruction refusing a program it does not know
process_verify_instruction_expecting_native(instruction, st) ==
    IF from_id(instruction.program_id) = None THEN [st EXCEPT !.res = "InvalidInstructionData"]
    ELSE ForEachRecord(instruction.data, Unwrap(from_id(instruction.program_id)),
                       parse_data(instruction.data), st)

process_verify_instruction(instruction, st) ==
    IF from_id(instruction.program_id) = None THEN st
    ELSE ForEachRecord(instruction.data, Unwrap(from_id(instruction.program_id)),
                       parse_data(instruction.data), st)

\* the epoch of the Update instruction: Done(Option of its 8 bytes)
ReadEpoch(instruction) ==
    IF Len(instruction) = 0 THEN Done(None)
    ELSE IF Len(instruction) = 8 THEN Done(Some(instruction))
    ELSE Fail("InvalidInstructionData")

\* handle_update from write_count_and_sort on
Sorted(st, sorted) ==
    IF sorted.res # "Ok" THEN FailWith(sorted.res, st.w)
    ELSE Done([st.w EXCEPT !.signatures = sorted.val,
                           !.log = Append(@, <<"write_count_and_sort", st.count>>)])

\* handle_update once process_verify_instruction has returned
Processed(epoch, st) ==
    IF st.res # "Ok" THEN FailWith(st.res, st.w)
    ELSE Sorted(st, write_count_and_sort(st.w.signatures, epoch, st.count))

\* handle_update once the previous instruction is asked for
WithPrevIx(epoch, w, count, prev_ix) ==
    IF prev_ix.res # "Ok" THEN FailWith(prev_ix.res, w)
    ELSE Processed(epoch, process_verify_instruction(
                              prev_ix.val, [res |-> "Ok", w |-> w, count |-> count]))

\* handle_update once the count is read
WithCount(ctx, epoch, w, count, sysvar) ==
    IF count.res # "Ok" THEN FailWith(count.res, w)
    ELSE IF Len(ctx.accounts) = 0 THEN FailWith("NotEnoughAccountKeys", w)
    ELSE WithPrevIx(epoch, w, count.val, get_instruction_relative(ctx.accounts[1], sysvar))

\* handle_update once initialise_signatures_account has returned
Initialised(ctx, epoch, init, sysvar) ==
    IF init.res # "Ok" THEN init
    ELSE WithCount(ctx, epoch, init.val, read_count(init.val.signatures, epoch), sysvar)

\* handle_update once the epoch is read
WithEpoch(ctx, epoch, w, sysvar) ==
    IF epoch.res # "Ok" THEN FailWith("InvalidInstructionData", w)
    ELSE Initialised(ctx, epoch.val, initialise_signatures_account(ctx, w), sysvar)

handle_update(ctx, w, sysvar) == WithEpoch(ctx, ReadEpoch(ctx.instruction), w, sysvar)

\* process_instruction once Context::get has returned
Dispatch(tag, ctx, w, sysvar) ==
    IF ctx.res # "Ok" THEN FailWith(ctx.res, w)
    ELSE IF tag = 0 THEN handle_update(ctx.val, w, sysvar)
    ELSE IF tag = 1 /\ Len(ctx.val.instruction) = 0 THEN free_signatures_account(w)
    ELSE FailWith("InvalidInstructionData", w)

\* process_instruction on the accounts as they are when the instruction starts
process_instruction(pid, accounts, instruction, w, sysvar) ==
    IF Len(instruction) = 0 THEN FailWith("InvalidInstructionData", w)
    ELSE Dispatch(Head(instruction), Context_get(pid, accounts, Tail(instruction)), w, sysvar)

\* What the runtime does with the result of the program: a program may not
\* take lamports from an account it does not own.
Verified_by_runtime(pid, w, r) ==
    IF r.res # "Ok" THEN r
    ELSE IF /\ w.signatures.owner # pid
            /\ U64Less(r.val.signatures.lamports, w.signatures.lamports)
    THEN FailWith("ExternalAccountLamportSpend", r.val)
    ELSE r

entrypoint(pid, accounts, instruction, w, sysvar) ==
    Verified_by_runtime(pid, w, process_instruction(pid, accounts, instruction, w, sysvar))

----------------------------------------------------------------------------
(* The codec on its own: an entry list is encoded, the result is parsed.   *)

Idle ==
    /\ payer = U64Zero
    /\ signatures = NoAccount
    /\ tx = <<>>
    /\ donor = U64Zero
    /\ saved = <<>>
    /\ log = <<>>

InitCodec ==
    /\ entries \in SeqsUpTo(Entries, MaxEntries)
    /\ data = None
    /\ parsed = None
    /\ result = "start"
    /\ Idle

Encode ==
    /\ result = "start"
    /\ data' = new_instruction_data(entries)
    /\ result' = IF IsSome(data') THEN "encoded" ELSE "rejected"
    /\ UNCHANGED <<entries, parsed, payer, signatures, donor, tx, saved, log>>

Parse ==
    /\ result = "encoded"
    /\ LET records == parse_data(Unwrap(data))
       IN  /\ parsed' = IF IsSome(records)
                        THEN Some(IterCollect(Unwrap(data), Unwrap(records)))
                        ELSE None
           /\ result' = IF IsSome(records) THEN "parsed" ELSE "BadData"
    /\ UNCHANGED <<entries, data, payer, signatures, donor, tx, saved, log>>

NextCodec == Encode \/ Parse

SpecCodec == InitCodec /\ [][NextCodec]_vars

\* C2: whatever new_instruction_data accepts, parse_data of its output
\* succeeds and yields exactly Ok(entry) for each original entry, in the
\* original order, and then ends, with or without deduplication.
RoundTrip ==
    /\ result # "BadData"
    /\ result = "parsed" =>
          /\ IsSome(parsed)
          /\ Len(Unwrap(parsed)) = Len(entries)
          /\ \A i \in 1..Len(entries) : Unwrap(parsed)[i] = Ok(entries[i])

\* the bytes the encoder would use without any deduplication
WorstCase(es) == 2 + (OFF_SIZE + 64 + 32) * Len(es) + Len(Concat([i \in 1..Len(es) |-> es[i].message]))

\* a list of three entries was parsed back although the third message (a
\* proper prefix of the second) and the third key were not written again
RoundTripDedupWitness ==
    /\ result = "parsed"
    /\ Len(entries) = 3
    /\ entries[1].message = <<>>
    /\ entries[2].message = <<7, 8>>
    /\ entries[3].message = <<7>>
    /\ entries[3].pubkey = entries[1].pubkey
    /\ entries[2].pubkey # entries[1].pubkey
    /\ Len(Unwrap(data)) < WorstCase(entries)
    /\ Unwrap(parsed)[3] = Ok(entries[3])

----------------------------------------------------------------------------
(* The signatures account on its own, as test_ed25519 drives it: one       *)
(* 76-byte zeroed buffer, write_signature and write_count_and_sort in any  *)
(* order, and the test's enlarge callback.                                 *)

TEST_DATA_LEN == 76
TEST_NEW_DATA_LEN == 108

\* largest slot index and count handed to the store calls
MaxIndex == 3

TestDigests ==
    {SigHash_new(ED25519_MAGIC, KeyA, SigA, <<7>>),
     SigHash_new(ED25519_MAGIC, KeyB, SigB, <<7, 8>>)}

TestEpochs == {None, Some(Fill(8, 0)), Some(<<2, 0, 0, 0, 0, 0, 0, 0>>)}

\* the callback of the test: the data moves to a buffer of 108 bytes
TestEnlarge(w) ==
    Done([w EXCEPT !.signatures.len = TEST_NEW_DATA_LEN, !.log = Append(@, <<"enlarge">>)])

World == [payer |-> payer, signatures |-> signatures, log |-> <<>>]

InitStore ==
    /\ entries = <<>>
    /\ data = None
    /\ parsed = None
    /\ payer = U64Zero
    /\ signatures = [NoAccount EXCEPT !.lamports = U64(42), !.owner = PROGRAM_ID,
                                      !.len = TEST_DATA_LEN]
    /\ tx = <<>>
    /\ donor = U64Zero
    /\ saved = <<>>
    /\ result = "start"
    /\ log = <<>>

StoreWriteSignature ==
    \E index \in 0..MaxIndex, signature \in TestDigests :
        LET r == write_signature(World, index, signature, TestEnlarge(World))
        IN  /\ result' = r.res
            /\ signatures' = r.val.signatures
            /\ log' = <<<<"write_signature", index>>>>
            /\ UNCHANGED <<entries, data, parsed, payer, donor, tx, saved>>

StoreWriteCountAndSort ==
    \E epoch \in TestEpochs, count \in 0..(MaxIndex + 1) :
        LET r == write_count_and_sort(signatures, epoch, count)
        IN  /\ result' = r.res
            /\ signatures' = IF r.res = "Ok" THEN r.val ELSE signatures
            /\ log' = <<<<"write_count_and_sort", count>>>>
            /\ UNCHANGED <<entries, data, parsed, payer, donor, tx, saved>>

NextStore == StoreWriteSignature \/ StoreWriteCountAndSort

SpecStore == InitStore /\ [][NextStore]_vars

\* the first `count` slots are non-decreasing
Ordered(acc) ==
    \A i \in 1..(acc.count - 1) : SlotAt(acc, i - 1) <= SlotAt(acc, i)

\* find_sighash answers true exactly for the digests among the first `count` slots
FindIsMembership(acc) ==
    \A d \in TestDigests \cup {0} :
        find_sighash(acc, d) = Done(\E i \in 1..acc.count : SlotAt(acc, i - 1) = d)

\* C3 as stated: after any sequence of write_signature and
\* write_count_and_sort calls the first `count` slots are non-decreasing and
\* find answers true exactly for the digests among them.
StoreOrdering == Ordered(signatures) /\ FindIsMembership(signatures)

\* the step was a successful write_signature into a slot below the stored count
OverwroteBelowCount ==
    /\ log' # <<>>
    /\ log'[1][1] = "write_signature"
    /\ result' = "Ok"
    /\ log'[1][2] < signatures.count

\* the step was a successful write_count_and_sort
SortedNow ==
    /\ log' # <<>>
    /\ log'[1][1] = "write_count_and_sort"
    /\ result' = "Ok"

\* C3 (amended): the first `count` slots are non-decreasing and find answers
\* true exactly for the digests among them after every successful
\* write_count_and_sort, and that stays so over every later call except a
\* write_signature into a slot below the stored count.
StoreOrderingAfterSort ==
    [][(SortedNow \/ (StoreOrdering /\ ~OverwroteBelowCount)) => StoreOrdering']_vars

\* write_count_and_sort has put three slots, written out of order, in order
StoreOrderingWitness ==
    /\ log # <<>>
    /\ log[1] = <<"write_count_and_sort", 3>>
    /\ result = "Ok"
    /\ signatures.count = 3
    /\ signatures.slots[1] = 0
    /\ signatures.slots[1] < signatures.slots[2]
    /\ signatures.slots[2] < signatures.slots[3]
    /\ StoreOrdering

----------------------------------------------------------------------------
(* src/instruction.rs: the instructions a client sends.                    *)

\* AccountMeta::new(key, is_signer)
AccountMeta(key, is_signer) == [key |-> key, is_signer |-> is_signer, is_writable |-> TRUE]

check_seed(seed) == IF Len(seed) < MAX_SEED_LEN THEN Some(Len(seed)) ELSE None

\* u64::to_le_bytes of the small epochs of this model
EpochLe(n) == <<n % 256, n \div 256, 0, 0, 0, 0, 0, 0>>

\* a panic: of an unwrap, an index out of range, or a library call
Panicked == [res |-> "panic"]

\* update: Done(<<instruction, account, bump>>); epoch is an Option of the
\* 8 bytes of the epoch.  find_program_address panics if it finds no
\* address, and buf[len..len + 8] if the 40 bytes of buf end before len + 8.
update(sigverify_program, payer_key, seed, epoch) ==
    LET found == find_program_address(<<payer_key, seed>>, sigverify_program)
    IN  IF try_find_program_address(<<payer_key, seed>>, sigverify_program) = None
        THEN Panicked
        ELSE IF check_seed(seed) = None THEN Fail("MaxSeedLengthExceeded")
        ELSE IF IsSome(epoch) /\ 2 + Len(seed) + 1 + 8 > 40 THEN Panicked
        ELSE Done(<<[program_id |-> sigverify_program,
                     accounts |-> <<AccountMeta(payer_key, TRUE),
                                    AccountMeta(found[1], FALSE),
                                    AccountMeta(SYSVAR_INSTRUCTIONS_ID, FALSE),
                                    AccountMeta(SYSTEM_PROGRAM_ID, FALSE)>>,
                     data |-> <<0, Unwrap(check_seed(seed))>> \o seed \o <<found[2]>>
                              \o (IF IsSome(epoch) THEN Unwrap(epoch) ELSE <<>>)],
                    found[1], found[2]>>)

\* free: Done(instruction); signatures_account is an Option of the address
free(sigverify_program, payer_key, signatures_account, seed, bump) ==
    LET derived == create_program_address(<<payer_key, seed, <<bump>>>>, sigverify_program)
    IN  IF check_seed(seed) = None THEN Fail("MaxSeedLengthExceeded")
        ELSE IF signatures_account = None /\ derived = None THEN Fail("InvalidSeeds")
        ELSE Done([program_id |-> sigverify_program,
                   accounts |-> <<AccountMeta(payer_key, TRUE),
                                  AccountMeta(IF IsSome(signatures_account)
                                              THEN Unwrap(signatures_account)
                                              ELSE Unwrap(derived), FALSE),
                                  AccountMeta(SYSTEM_PROGRAM_ID, FALSE)>>,
                   data |-> <<1, Unwrap(check_seed(seed))>> \o seed \o <<bump>>])

\* verify_program::new_instruction: a call to a native program, if the
\* entries can be encoded
new_instruction(native_program, es) ==
    IF new_instruction_data(es) = None THEN None
    ELSE Some([program_id |-> native_program, accounts |-> <<>>,
               data |-> Unwrap(new_instruction_data(es))])

----------------------------------------------------------------------------
(* The protocol: one payer, one seed, transactions of a few instructions.  *)

PAYER_KEY == Fill(32, 80)
DONOR_KEY == Fill(32, 68)
SEED == <<115>>

StoreKey == update(PROGRAM_ID, PAYER_KEY, SEED, None).val[2]
StoreBump == update(PROGRAM_ID, PAYER_KEY, SEED, None).val[3]

E1 == MkEntry(SigA, KeyA, <<7, 8>>)
E2 == MkEntry(SigB, KeyA, <<7>>)

\* bytes with those from a 0-based offset on replaced
Patch(bytes, offset, patch) ==
    [i \in 1..Len(bytes) |->
        IF i > offset /\ i <= offset + Len(patch) THEN patch[i - offset] ELSE bytes[i]]

\* E1 and E2, both in the instruction itself
TwoEntries == Unwrap(new_instruction_data(<<E1, E2>>))

\* E2, a record whose signature is in instruction 0, and E2 again
WithForeignRecord ==
    Patch(Unwrap(new_instruction_data(<<E2, E1, E2>>)), 2 + OFF_SIZE + 2, <<0, 0>>)

\* E1, then a record whose message runs past the end of the data
WithBadRecord == Patch(TwoEntries, 2 + OFF_SIZE + 10, <<255, 255>>)

\* data too short to hold the records it announces
Truncated2 == <<2, 0>>

OTHER_PROGRAM_ID == <<"Memo1UhkJRfHyvLMcVucJwxXeuD728EqVDDwQDxFMNo">>

NativeIx(pid, bytes) == [program_id |-> pid, accounts |-> <<>>, data |-> bytes]

\* the 8 little-endian bytes of a u64 and back
U64ToLe(v) ==
    <<v[1] % 256, v[1] \div 256, v[2] % 256, v[2] \div 256,
      v[3] % 256, v[3] \div 256, v[4] % 256, v[4] \div 256>>

U64FromLe(b) ==
    <<b[1] + 256 * b[2], b[3] + 256 * b[4], b[5] + 256 * b[6], b[7] + 256 * b[8]>>

\* SystemInstruction::Transfer from the donor
TransferIx(to, lamports) ==
    [program_id |-> SYSTEM_PROGRAM_ID,
     accounts |-> <<AccountMeta(DONOR_KEY, TRUE), AccountMeta(to, FALSE)>>,
     data |-> <<2, 0, 0, 0>> \o U64ToLe(lamports)]

\* what the donor gives at a time: the least an account without data can
\* hold and stay exempt from rent
Donation == minimum_balance(0)

\* how many times the donor can give
MaxDonations == 1

\* longest transaction
MaxTxLen == 3

\* an instruction is run only if it leaves the count at or below this
MaxCount == 4

UpdateIx(epoch) == update(PROGRAM_ID, PAYER_KEY, SEED, epoch).val[1]
FreeIx == free(PROGRAM_ID, PAYER_KEY, None, SEED, StoreBump).val

Instructions ==
    { NativeIx(ED25519_PROGRAM_ID, TwoEntries),
      NativeIx(SECP256R1_PROGRAM_ID, WithForeignRecord),
      NativeIx(ED25519_PROGRAM_ID, WithBadRecord),
      NativeIx(OTHER_PROGRAM_ID, TwoEntries),
      UpdateIx(None), UpdateIx(Some(EpochLe(1))),
      FreeIx,
      TransferIx(PAYER_KEY, Donation), TransferIx(StoreKey, Donation) }

\* a payer that can pay for the account, and one that holds every lamport
Rich == <<0, 0, 1, 0>>
PayerBalances == {U64Zero, Rich, U64Max}

Init ==
    /\ entries = <<>>
    /\ data = None
    /\ parsed = None
    /\ payer \in PayerBalances
    /\ signatures = NoAccount
    /\ donor = U64(MaxDonations * (ACCOUNT_STORAGE_OVERHEAD * LAMPORTS_PER_BYTE))
    /\ tx = <<>>
    /\ saved = <<>>
    /\ result = "idle"
    /\ log = <<>>

\* the accounts as an instruction finds them
Accounts ==
    [payer |-> payer, signatures |-> signatures,
     original_data_len |-> signatures.len, log |-> <<>>]

\* the system program's Transfer from the donor to the payer or to the
\* address of the Signatures account
DonorTransfer(ix, w) ==
    LET lamports == U64FromLe(Tail0(ix.data, 4))
        to == ix.accounts[2].key
        balance == IF to = PAYER_KEY THEN w.payer ELSE w.signatures.lamports
    IN  IF U64Less(donor, lamports) THEN [res |-> "InsufficientFunds", val |-> w, donor |-> donor]
        ELSE IF checked_add(balance, lamports) = None
        THEN [res |-> "ArithmeticOverflow", val |-> w, donor |-> donor]
        ELSE [res |-> "Ok",
              val |-> IF to = PAYER_KEY
                      THEN [w EXCEPT !.payer = Unwrap(checked_add(balance, lamports))]
                      ELSE [w EXCEPT !.signatures.lamports = Unwrap(checked_add(balance, lamports))],
              donor |-> U64Diff(donor, lamports)]

\* What running one instruction does to the accounts.  A native program has
\* checked its signatures before the transaction runs and changes nothing;
\* neither does the other program.
Run(ix, w, sysvar) ==
    IF ix.program_id = PROGRAM_ID
    THEN entrypoint(PROGRAM_ID, ix.accounts, ix.data, w, sysvar)
    ELSE IF ix.program_id = SYSTEM_PROGRAM_ID THEN DonorTransfer(ix, w)
    ELSE Done(w)

IsUpdate(ix) == ix.program_id = PROGRAM_ID /\ Len(ix.data) > 0 /\ Head(ix.data) = 0
IsFree(ix) == ix.program_id = PROGRAM_ID /\ Len(ix.data) > 0 /\ Head(ix.data) = 1

\* The accounts after an instruction that returned r, in a transaction that
\* found the accounts as in start: if the instruction failed the transaction
\* is over and the runtime puts every account back as it was.
Committed(ix, r, start) ==
    /\ tx' = Append(tx, ix)
    /\ result' = r.res
    /\ log' = r.val.log
    /\ saved' = start
    /\ payer' = IF r.res = "Ok" THEN r.val.payer ELSE start.payer
    /\ signatures' = IF r.res = "Ok" THEN r.val.signatures ELSE start.signatures
    /\ donor' = IF r.res # "Ok" THEN start.donor
                ELSE IF ix.program_id = SYSTEM_PROGRAM_ID THEN r.donor ELSE donor

\* Committed, for the instructions that leave the count within the bound
Applied(ix, r, start) ==
    /\ r.res = "Ok" => r.val.signatures.count <= MaxCount
    /\ Committed(ix, r, start)

\* The next instruction of the transaction runs.  The first one starts the
\* transaction.
Exec(ix) ==
    /\ result \in {"idle", "Ok"}
    /\ Len(tx) < MaxTxLen
    /\ Applied(ix, Run(ix, Accounts, [instructions |-> tx, current |-> Len(tx)]),
               IF tx = <<>>
               THEN [payer |-> payer, signatures |-> signatures, donor |-> donor]
               ELSE saved)
    /\ UNCHANGED codecVars

\* The transaction ends: what it did stays if no instruction failed.
EndTx ==
    /\ tx # <<>>
    /\ tx' = <<>>
    /\ saved' = <<>>
    /\ result' = "idle"
    /\ log' = <<>>
    /\ UNCHANGED <<payer, signatures, donor>>
    /\ UNCHANGED codecVars

Next == (\E ix \in Instructions : Exec(ix)) \/ EndTx

Spec == Init /\ [][Next]_vars

----------------------------------------------------------------------------
(* What the properties of the protocol speak about.                        *)

\* the digests of the entries of this model differ from each other and from
\* the zero slot
HashInjective ==
    \A a1 \in Algorithms, a2 \in Algorithms, e1 \in Entries, e2 \in Entries :
        /\ SigHash_from_entry(magic(a1), e1) # 0
        /\ SigHash_from_entry(magic(a1), e1) = SigHash_from_entry(magic(a2), e2)
               => a1 = a2 /\ e1 = e2

\* this step ran an instruction; ThisIx is that instruction and PrevIx the
\* one the transaction ran before it
Stepped == Len(tx') = Len(tx) + 1
ThisIx == tx'[Len(tx')]
PrevIx == tx[Len(tx)]

UpdateRan == Stepped /\ IsUpdate(ThisIx)
UpdateSucceeded == UpdateRan /\ result' = "Ok"
UpdateFailed == UpdateRan /\ result' # "Ok"

\* the Option of the epoch an Update instruction carries
SuppliedEpoch(ix) == Tail0(ix.data, 3 + ix.data[2])
EpochOption(ix) == IF SuppliedEpoch(ix) = <<>> THEN None ELSE Some(SuppliedEpoch(ix))

\* the results of decoding the records of an instruction, none if it calls
\* no registered program
Records(ix) ==
    IF from_id(ix.program_id) = None \/ parse_data(ix.data) = None THEN <<>>
    ELSE IterCollect(ix.data, Unwrap(parse_data(ix.data)))

IsOk(record) == record.tag = "Ok"

\* the digests of the records that decode, in record order
RECURSIVE DigestsFrom(_, _, _)
DigestsFrom(records, i, mgc) ==
    IF i > Len(records) THEN <<>>
    ELSE IF IsOk(records[i])
    THEN <<SigHash_from_entry(mgc, records[i].entry)>> \o DigestsFrom(records, i + 1, mgc)
    ELSE DigestsFrom(records, i + 1, mgc)

Digests(ix) ==
    IF from_id(ix.program_id) = None THEN <<>>
    ELSE DigestsFrom(Records(ix), 1, Unwrap(from_id(ix.program_id)))

\* a verifier of the algorithm with the account attached, and nothing
\* else, accepts the entry
Verified(algo, acc, e) ==
    /\ set_sigverify_account(acc, PROGRAM_ID).res = "Ok"
    /\ verify(algo, None, set_sigverify_account(acc, PROGRAM_ID).val,
              e.message, e.pubkey, e.signature) = Done(TRUE)

\* find on the account says the digest is there
Found(acc, digest) == find_sighash(acc, digest) = Done(TRUE)

\* every digest an entry of this model can have
AllDigests == {SigHash_from_entry(magic(a), e) : a \in Algorithms, e \in {E1, E2}}

\* C1: a successful Update makes the verifier of algorithm A, with the
\* store attached, accept every entry that the instruction just before it
\* handed to A's native program in the instruction itself; and an entry a
\* verifier accepts is still accepted after a successful Update that carries
\* no epoch or the stored one.
EndToEndAttestation ==
    [][UpdateSucceeded =>
        /\ \A algo \in Algorithms :
               program_id(algo) = PrevIx.program_id =>
                   \A i \in 1..Len(Records(PrevIx)) :
                       IsOk(Records(PrevIx)[i]) =>
                           Verified(algo, signatures', Records(PrevIx)[i].entry)
        /\ EpochOption(ThisIx) \in {None, Some(signatures.epoch)} =>
               \A algo \in Algorithms, e \in {E1, E2} :
                   Verified(algo, signatures, e) => Verified(algo, signatures', e)]_vars

\* an Update after a secp256r1 call has just succeeded on a store that held
\* the entries of an earlier ed25519 call, and all of them are accepted
EndToEndAttestationWitness ==
    /\ Len(tx) >= 2
    /\ result = "Ok"
    /\ IsUpdate(tx[Len(tx)])
    /\ tx[Len(tx) - 1] = NativeIx(SECP256R1_PROGRAM_ID, WithForeignRecord)
    /\ signatures.count = 4
    /\ Verified("Ed25519", signatures, E1)
    /\ Verified("Ed25519", signatures, E2)
    /\ Verified("Secp256r1", signatures, E2)
    /\ ~Verified("Secp256r1", signatures, E1)

\* the digest the store keeps for an entry attested under an algorithm
DigestOf(algo, e) == SigHash_from_entry(magic(algo), e)

\* C4: a successful Update that carries an epoch other than the stored one
\* leaves the supplied epoch in the header, a count equal to the number of
\* entries decoded from the instruction before it, and find true for no
\* digest but those of these entries.
EpochClear ==
    [][(UpdateSucceeded /\ EpochOption(ThisIx) \notin {None, Some(signatures.epoch)}) =>
        /\ Some(signatures'.epoch) = EpochOption(ThisIx)
        /\ signatures'.count = Len(Digests(PrevIx))
        /\ \A d \in AllDigests :
               Found(signatures', d) => d \in Range(Digests(PrevIx))]_vars

\* the store held the two ed25519 digests under epoch 0; an Update with
\* epoch 1 after the secp256r1 call has left only that call's digests
EpochClearWitness ==
    /\ tx = <<NativeIx(SECP256R1_PROGRAM_ID, WithForeignRecord), UpdateIx(Some(EpochLe(1)))>>
    /\ result = "Ok"
    /\ saved.signatures.epoch = EpochLe(0)
    /\ saved.signatures.count = 2
    /\ Found(saved.signatures, DigestOf("Ed25519", E1))
    /\ signatures.epoch = EpochLe(1)
    /\ signatures.count = 2
    /\ ~Found(signatures, DigestOf("Ed25519", E1))
    /\ Found(signatures, DigestOf("Secp256r1", E2))

\* C5: a successful Update that carries no epoch, or the stored one, keeps
\* every digest find reported, adds the number of decoded entries to the
\* count, and without an epoch leaves the stored epoch alone.
AppendUnderUnchangedEpoch ==
    [][(UpdateSucceeded /\ EpochOption(ThisIx) \in {None, Some(signatures.epoch)}) =>
        /\ \A d \in AllDigests : Found(signatures, d) => Found(signatures', d)
        /\ signatures'.count = signatures.count + Len(Digests(PrevIx))
        /\ EpochOption(ThisIx) = None => signatures'.epoch = signatures.epoch]_vars

\* an Update without epoch has added the secp256r1 call's two digests to a
\* store of epoch 1 that held the two ed25519 ones
AppendUnderUnchangedEpochWitness ==
    /\ tx = <<NativeIx(SECP256R1_PROGRAM_ID, WithForeignRecord), UpdateIx(None)>>
    /\ result = "Ok"
    /\ saved.signatures.epoch = EpochLe(1)
    /\ saved.signatures.count = 2
    /\ Found(saved.signatures, DigestOf("Ed25519", E1))
    /\ signatures.epoch = EpochLe(1)
    /\ signatures.count = 4
    /\ Found(signatures, DigestOf("Ed25519", E1))
    /\ Found(signatures, DigestOf("Secp256r1", E2))

\* the instructions sysvar as the instruction of this step sees it
Sysvar == [instructions |-> tx, current |-> Len(tx)]

\* the accounts as the transaction of this step found them
AtStart == IF tx = <<>> THEN [payer |-> payer, signatures |-> signatures] ELSE saved

\* the instruction before this one calls a registered program with data
\* that cannot be parsed or with a record that decodes to BadData
PrevHasBadData ==
    /\ tx # <<>>
    /\ from_id(PrevIx.program_id) # None
    /\ \/ parse_data(PrevIx.data) = None
       \/ \E i \in 1..Len(Records(PrevIx)) : Records(PrevIx)[i] = BadData

IsWrite(event) == event[1] = "write"

\* C6 as stated: after an Update that fails, the store is the one the
\* instruction found.
AllOrNothingPerInstruction ==
    [][UpdateFailed => signatures' = signatures]_vars

\* C6: an Update fails whenever a record of the instruction before it
\* decodes to BadData, and after an Update that fails for any reason the
\* store is the one the transaction found, whatever the Update had written:
\* that is the store the instruction found unless an earlier instruction of
\* the transaction changed it.
AllOrNothing ==
    [][UpdateRan =>
        /\ PrevHasBadData => result' # "Ok"
        /\ result' # "Ok" =>
               /\ signatures' = AtStart.signatures
               /\ payer' = AtStart.payer
               /\ signatures = AtStart.signatures => signatures' = signatures]_vars

\* an Update has written the digest of the first record into slot 0, failed
\* on the second record, and the store has no account as before
AllOrNothingWitness ==
    /\ tx = <<NativeIx(ED25519_PROGRAM_ID, WithBadRecord), UpdateIx(None)>>
    /\ result = "InvalidInstructionData"
    /\ log = <<<<"create_account", MAX_PERMITTED_DATA_INCREASE>>,
               <<"write", 0, DigestOf("Ed25519", E1)>>>>
    /\ signatures = NoAccount
    /\ saved.signatures = NoAccount
    /\ payer = saved.payer

\* the count an Update starts from
StartCount ==
    IF EpochOption(ThisIx) \in {None, Some(signatures.epoch)} THEN signatures.count ELSE 0

\* the write_signature calls of a log, in order
Writes(events) == SelectSeq(events, IsWrite)

\* the writes that append the digests at the indices from a count on
Appends(digests, count) == [i \in 1..Len(digests) |-> <<"write", count + i - 1, digests[i]>>]

\* C7: a successful Update after a call to a registered program makes one
\* write_signature call per record that decodes, in record order and at
\* consecutive indices from the starting count, duplicates included; records
\* that decode to UnsupportedFeature cause no call; the last call is
\* write_count_and_sort with the starting count plus the number of writes,
\* which leaves the kept and the new digests sorted in the first slots.
AggregationStep ==
    [][(UpdateSucceeded /\ from_id(PrevIx.program_id) # None) =>
        /\ Writes(log') = Appends(Digests(PrevIx), StartCount)
        /\ log'[Len(log')] = <<"write_count_and_sort", StartCount + Len(Digests(PrevIx))>>
        /\ signatures'.count = StartCount + Len(Digests(PrevIx))
        /\ FirstSlots(signatures', signatures'.count)
               = sort_unstable(FirstSlots(signatures, StartCount) \o Digests(PrevIx))]_vars

\* the records E2, UnsupportedFeature, E2 of a secp256r1 call have been
\* added to a store of two digests: two writes of the same digest
AggregationStepWitness ==
    /\ tx = <<NativeIx(SECP256R1_PROGRAM_ID, WithForeignRecord), UpdateIx(None)>>
    /\ result = "Ok"
    /\ Records(tx[1]) = <<Ok(E2), UnsupportedFeature, Ok(E2)>>
    /\ log = <<<<"write", 2, DigestOf("Secp256r1", E2)>>,
               <<"write", 3, DigestOf("Secp256r1", E2)>>,
               <<"write_count_and_sort", 4>>>>
    /\ saved.signatures.count = 2
    /\ signatures.count = 4

\* C8: an Update writes the digests of the instruction just before it and
\* no others, so that find reports nothing new but digests of that
\* instruction; an Update that is the first instruction of its transaction
\* fails and leaves the store as it was.
OrderingPrecondition ==
    [][UpdateRan =>
        /\ tx = <<>> => result' # "Ok" /\ signatures' = signatures
        /\ result' = "Ok" =>
               /\ Writes(log') = Appends(Digests(PrevIx), StartCount)
               /\ \A d \in AllDigests :
                      Found(signatures', d) /\ ~Found(signatures, d)
                          => d \in Range(Digests(PrevIx))]_vars

\* an Update two instructions after an ed25519 call, and just after a call
\* to another program, has succeeded and recorded nothing
OrderingPreconditionWitness ==
    /\ tx = <<NativeIx(ED25519_PROGRAM_ID, TwoEntries),
              NativeIx(OTHER_PROGRAM_ID, TwoEntries),
              UpdateIx(None)>>
    /\ result = "Ok"
    /\ log = <<<<"create_account", MAX_PERMITTED_DATA_INCREASE>>,
               <<"write_count_and_sort", 0>>>>
    /\ signatures.count = 0
    /\ ~Found(signatures, DigestOf("Ed25519", E1))

\* this step ran a Free instruction
FreeRan == Stepped /\ IsFree(ThisIx)

\* C9: a successful Free adds the balance of the store to the payer's and
\* leaves the store with no lamports, the system program as owner and no
\* data; if the sum of the balances does not fit 64 bits, Free fails with
\* ArithmeticOverflow, having changed nothing of the accounts it was given,
\* and the accounts are as the transaction found them.
FreeReturnsBalance ==
    [][FreeRan =>
        /\ result' = "Ok" =>
               /\ Some(payer') = checked_add(payer, signatures.lamports)
               /\ signatures'.lamports = U64Zero
               /\ signatures'.owner = SYSTEM_PROGRAM_ID
               /\ signatures'.len = 0
        /\ checked_add(payer, signatures.lamports) = None =>
               /\ result' = "ArithmeticOverflow"
               /\ process_instruction(PROGRAM_ID, ThisIx.accounts, ThisIx.data, Accounts, Sysvar)
                      = FailWith("ArithmeticOverflow", Accounts)
               /\ payer' = AtStart.payer
               /\ signatures' = AtStart.signatures]_vars

\* a Free has returned the balance of a store that held digests
FreeReturnsBalanceWitness ==
    /\ tx = <<FreeIx>>
    /\ result = "Ok"
    /\ saved.signatures.count = 2
    /\ saved.signatures.lamports = minimum_balance(MAX_PERMITTED_DATA_INCREASE)
    /\ saved.payer = U64Diff(Rich, minimum_balance(MAX_PERMITTED_DATA_INCREASE))
    /\ payer = Rich
    /\ signatures = NoAccount

\* a Free of a store that held digests has failed on the sum of the balances
FreeOverflowWitness ==
    /\ tx = <<FreeIx>>
    /\ result = "ArithmeticOverflow"
    /\ signatures.count = 2
    /\ signatures.owner = PROGRAM_ID
    /\ checked_add(payer, signatures.lamports) = None

\* C10: a successful Free leaves no account at the address; a successful
\* Update that finds no account there creates it, whatever epoch it carries,
\* and leaves in it the digests of the instruction before it and no others.
FreeThenReuse ==
    [][/\ (FreeRan /\ result' = "Ok") => signatures' = NoAccount
       /\ (UpdateSucceeded /\ signatures = NoAccount) =>
              /\ Head(log') = <<"create_account", MAX_PERMITTED_DATA_INCREASE>>
              /\ signatures'.owner = PROGRAM_ID
              /\ signatures'.len = MAX_PERMITTED_DATA_INCREASE
              /\ Writes(log') = Appends(Digests(PrevIx), 0)
              /\ signatures'.count = Len(Digests(PrevIx))
              /\ \A d \in AllDigests :
                     Found(signatures', d) <=> d \in Range(Digests(PrevIx))]_vars

\* a store of epoch 1 with the two ed25519 digests was freed, and an Update
\* with epoch 1 after the secp256r1 call holds that call's digests only
FreeThenReuseWitness ==
    /\ tx = <<FreeIx, NativeIx(SECP256R1_PROGRAM_ID, WithForeignRecord),
              UpdateIx(Some(EpochLe(1)))>>
    /\ result = "Ok"
    /\ saved.signatures.epoch = EpochLe(1)
    /\ saved.signatures.count = 2
    /\ Found(saved.signatures, DigestOf("Ed25519", E1))
    /\ signatures.epoch = EpochLe(1)
    /\ signatures.count = 2
    /\ ~Found(signatures, DigestOf("Ed25519", E1))
    /\ Found(signatures, DigestOf("Secp256r1", E2))

----------------------------------------------------------------------------
(* Creation of the Signatures account.                                     *)

\* what Context::get makes of the instruction of this step
ThisCtx == Context_get(PROGRAM_ID, ThisIx.accounts, Tail(ThisIx.data))

\* the rent-exempt minimum of an account of 10240 bytes
CreationCost == minimum_balance(MAX_PERMITTED_DATA_INCREASE)

\* the account create_account leaves: 10240 zero bytes, owned by the program
Created ==
    [NoAccount EXCEPT !.lamports = CreationCost, !.owner = PROGRAM_ID,
                      !.len = MAX_PERMITTED_DATA_INCREASE]

IsCreate(event) == event[1] = "create_account"

\* C11: an Update whose accounts pass validation creates the store exactly
\* when it finds it with zero lamports: the account then has 10240 zero
\* bytes (epoch 0, count 0), the rent-exempt minimum for that size taken
\* from the payer, and this program as owner; a store with lamports is left
\* to initialise_signatures_account as it is, no create_account is made,
\* and a successful Update keeps its owner and does not shrink it.
AccountCreation ==
    [][(UpdateRan /\ ThisCtx.res = "Ok") =>
        /\ signatures.lamports # U64Zero =>
               /\ initialise_signatures_account(ThisCtx.val, Accounts) = Done(Accounts)
               /\ SelectSeq(log', IsCreate) = <<>>
               /\ result' = "Ok" =>
                      /\ signatures'.owner = signatures.owner
                      /\ signatures'.len >= signatures.len
                      /\ ~U64Less(signatures'.lamports, signatures.lamports)
        /\ (signatures.lamports = U64Zero /\ ~U64Less(payer, CreationCost)) =>
               /\ initialise_signatures_account(ThisCtx.val, Accounts).res = "Ok"
               /\ initialise_signatures_account(ThisCtx.val, Accounts).val.signatures = Created
               /\ read_count(Created, None) = Done(0)
               /\ Created.epoch = EpochLe(0)
               /\ checked_add(initialise_signatures_account(ThisCtx.val, Accounts).val.payer,
                              CreationCost) = Some(payer)
               /\ Head(log') = <<"create_account", MAX_PERMITTED_DATA_INCREASE>>
        /\ (signatures.lamports = U64Zero /\ U64Less(payer, CreationCost)) =>
               /\ result' = "InsufficientFunds"
               /\ signatures' = AtStart.signatures
        /\ result' = "Ok" =>
               /\ signatures.lamports = U64Zero <=> SelectSeq(log', IsCreate) # <<>>
               /\ signatures.lamports = U64Zero =>
                      /\ signatures'.owner = PROGRAM_ID
                      /\ signatures'.len = MAX_PERMITTED_DATA_INCREASE
                      /\ signatures'.lamports = CreationCost
                      /\ checked_add(payer', CreationCost) = Some(payer)]_vars

\* an Update has created the store for a payer who could pay for it, and a
\* second Update in the same transaction found lamports there and created
\* nothing
AccountCreationWitness ==
    /\ tx = <<NativeIx(ED25519_PROGRAM_ID, TwoEntries), UpdateIx(None), UpdateIx(None)>>
    /\ result = "Ok"
    /\ saved.signatures = NoAccount
    /\ saved.payer = Rich
    /\ SelectSeq(log, IsCreate) = <<>>
    /\ signatures.owner = PROGRAM_ID
    /\ signatures.len = MAX_PERMITTED_DATA_INCREASE
    /\ signatures.lamports = CreationCost
    /\ signatures.count = 2
    /\ payer = U64Diff(Rich, CreationCost)

----------------------------------------------------------------------------
(* Growth of the Signatures account: the protocol on stores that are full  *)
(* or one slot short of it, at the size Update creates them with and at    *)
(* the largest size an account can have.                                   *)

\* the two ed25519 digests, in slot order
LowDigest == sort_unstable(<<DigestOf("Ed25519", E1), DigestOf("Ed25519", E2)>>)[1]
HighDigest == sort_unstable(<<DigestOf("Ed25519", E1), DigestOf("Ed25519", E2)>>)[2]

\* a store of the given size that earlier Updates have left with n digests
Filled(len, n) ==
    [lamports |-> minimum_balance(len), owner |-> PROGRAM_ID, len |-> len,
     epoch |-> EpochLe(0), count |-> n,
     slots |-> [i \in 1..n |-> IF 2 * i <= n THEN LowDigest ELSE HighDigest],
     fill |-> 0]

\* a store of the given size that Updates have filled with one digest
FilledWith(len, digest) ==
    [lamports |-> minimum_balance(len), owner |-> PROGRAM_ID, len |-> len,
     epoch |-> EpochLe(0), count |-> Chunks(len), slots |-> <<>>, fill |-> digest]

GrowStores ==
    { Filled(MAX_PERMITTED_DATA_INCREASE, Chunks(MAX_PERMITTED_DATA_INCREASE) - 1),
      Filled(MAX_PERMITTED_DATA_INCREASE, Chunks(MAX_PERMITTED_DATA_INCREASE)),
      FilledWith(MAX_PERMITTED_DATA_LENGTH, LowDigest) }

InitGrow ==
    /\ entries = <<>>
    /\ data = None
    /\ parsed = None
    /\ payer \in {U64Zero, Rich}
    /\ signatures \in GrowStores
    /\ donor = U64Zero
    /\ tx = <<>>
    /\ saved = <<>>
    /\ result = "idle"
    /\ log = <<>>

GrowInstructions ==
    { NativeIx(ED25519_PROGRAM_ID, TwoEntries),
      UpdateIx(None), UpdateIx(Some(EpochLe(1))), FreeIx }

\* the counts the stores of this specification are followed through: up to
\* the bound, from one slot short of what the account is created with to
\* the bound above it, and that of the largest account
GrowWindow(count) ==
    \/ count <= MaxCount
    \/ /\ count >= Chunks(MAX_PERMITTED_DATA_INCREASE) - 1
       /\ count <= Chunks(MAX_PERMITTED_DATA_INCREASE) + MaxCount
    \/ count = Chunks(MAX_PERMITTED_DATA_LENGTH)

\* Committed, for the instructions that leave the count among those
Grown(ix, r, start) ==
    /\ r.res = "Ok" => GrowWindow(r.val.signatures.count)
    /\ Committed(ix, r, start)

ExecGrow(ix) ==
    /\ result \in {"idle", "Ok"}
    /\ Len(tx) < MaxTxLen
    /\ Grown(ix, Run(ix, Accounts, [instructions |-> tx, current |-> Len(tx)]),
             IF tx = <<>>
             THEN [payer |-> payer, signatures |-> signatures, donor |-> donor]
             ELSE saved)
    /\ UNCHANGED codecVars

NextGrow == (\E ix \in GrowInstructions : ExecGrow(ix)) \/ EndTx

SpecGrow == InitGrow /\ [][NextGrow]_vars

IsEnlarge(event) == event[1] = "enlarge"

\* the store is owned by the program and holds a header
IsStore(acc) == acc.owner = PROGRAM_ID /\ acc.len >= HEAD_SIZE

\* C12: an enlarge step of an Update that succeeds leaves the account
\* 10240 bytes longer, and no longer than 10485760 bytes; on an account of
\* 10485760 bytes enlarge_signatures_account changes nothing and returns
\* Ok, the write that called it fails with AccountDataTooSmall and so does
\* the Update; a successful Update has written every digest of the
\* instruction before it, and the stored count never exceeds the slots of
\* the account.
GrowthPolicy ==
    [][/\ UpdateRan =>
              /\ (result' = "Ok" /\ SelectSeq(log', IsEnlarge) # <<>>) =>
                     /\ signatures'.len = signatures.len + MAX_PERMITTED_DATA_INCREASE
                     /\ signatures'.len <= MAX_PERMITTED_DATA_LENGTH
                     /\ ~U64Less(signatures'.lamports, minimum_balance(signatures'.len))
              /\ (IsStore(signatures) /\ signatures.len = MAX_PERMITTED_DATA_LENGTH) =>
                     /\ enlarge_signatures_account(Accounts)
                            = Done([Accounts EXCEPT !.log = <<<<"enlarge">>>>])
                     /\ (SelectSeq(log', IsEnlarge) # <<>>) =>
                            /\ result' = "AccountDataTooSmall"
                            /\ signatures' = AtStart.signatures
                            /\ payer' = AtStart.payer
              /\ result' = "Ok" =>
                     /\ Writes(log') = Appends(Digests(PrevIx), StartCount)
                     /\ signatures'.count = StartCount + Len(Digests(PrevIx))
                     /\ \A d \in Range(Digests(PrevIx)) : Found(signatures', d)
       /\ IsStore(signatures') => signatures'.count <= Chunks(signatures'.len)]_vars

\* an Update on a full account of the largest size has called enlarge,
\* which did nothing, and has failed on the write
GrowthPolicyWitness ==
    /\ tx = <<NativeIx(ED25519_PROGRAM_ID, TwoEntries), UpdateIx(None)>>
    /\ result = "AccountDataTooSmall"
    /\ log = <<<<"enlarge">>>>
    /\ signatures.len = MAX_PERMITTED_DATA_LENGTH
    /\ signatures.count = Chunks(MAX_PERMITTED_DATA_LENGTH)
    /\ payer = Rich

\* an Update has filled the last slot of an account of 10240 bytes, made
\* the account 10240 bytes longer and written the second digest there
GrowthStepWitness ==
    /\ tx = <<NativeIx(ED25519_PROGRAM_ID, TwoEntries), UpdateIx(None)>>
    /\ result = "Ok"
    /\ saved.signatures.len = MAX_PERMITTED_DATA_INCREASE
    /\ saved.signatures.count = Chunks(MAX_PERMITTED_DATA_INCREASE) - 1
    /\ log = <<<<"write", Chunks(MAX_PERMITTED_DATA_INCREASE) - 1, DigestOf("Ed25519", E1)>>,
               <<"enlarge">>,
               <<"transfer", U64(MAX_PERMITTED_DATA_INCREASE * LAMPORTS_PER_BYTE)>>,
               <<"write", Chunks(MAX_PERMITTED_DATA_INCREASE), DigestOf("Ed25519", E2)>>,
               <<"write_count_and_sort", Chunks(MAX_PERMITTED_DATA_INCREASE) + 1>>>>
    /\ signatures.len = 2 * MAX_PERMITTED_DATA_INCREASE
    /\ signatures.lamports = minimum_balance(2 * MAX_PERMITTED_DATA_INCREASE)

----------------------------------------------------------------------------
(* Validation of the accounts: the protocol with Update and Free           *)
(* instructions that name their accounts or spell their seed wrongly.      *)

\* the Payer as an instruction can name it
PayerMetas ==
    {[key |-> PAYER_KEY, is_signer |-> s, is_writable |-> w] : s \in BOOLEAN, w \in BOOLEAN}

\* the Signatures account, or another account in its place
StoreMetas ==
    {[key |-> k, is_signer |-> FALSE, is_writable |-> w] : k \in {StoreKey, DONOR_KEY}, w \in BOOLEAN}

\* no account, the Payer alone, or all the accounts of an Update
AccountLists ==
    {<<>>} \cup {<<p>> : p \in PayerMetas}
           \cup {<<p, s, AccountMeta(SYSVAR_INSTRUCTIONS_ID, FALSE),
                   AccountMeta(SYSTEM_PROGRAM_ID, FALSE)>> : p \in PayerMetas, s \in StoreMetas}

\* what follows the tag: nothing, the seed without its bump, the seed with
\* its bump, and the seed with another bump
SeedBodies ==
    {<<>>, <<Len(SEED)>> \o SEED, <<Len(SEED)>> \o SEED \o <<StoreBump>>,
     <<Len(SEED)>> \o SEED \o <<StoreBump - 1>>}

CheckedInstructions ==
    {[program_id |-> PROGRAM_ID, accounts |-> accs, data |-> <<tag>> \o body] :
        tag \in {0, 1}, accs \in AccountLists, body \in SeedBodies}

InitChecked ==
    /\ entries = <<>>
    /\ data = None
    /\ parsed = None
    /\ payer = Rich
    /\ signatures = NoAccount
    /\ donor = U64Zero
    /\ tx = <<>>
    /\ saved = <<>>
    /\ result = "idle"
    /\ log = <<>>

NextChecked ==
    \/ \E ix \in CheckedInstructions \cup {NativeIx(ED25519_PROGRAM_ID, TwoEntries)} :
           Exec(ix)
    \/ EndTx

SpecChecked == InitChecked /\ [][NextChecked]_vars

\* the seed and bump bytes an instruction must carry after its tag are there
HasSeedAndBump(ix) == Len(ix.data) >= 2 /\ Len(ix.data) >= 2 + ix.data[2] + 1

\* the address derived from the payer key, the seed and the bump of an
\* instruction under this program
DerivedAddress(ix) ==
    create_program_address(
        <<ix.accounts[1].key, SubSeq(ix.data, 3, 2 + ix.data[2]), <<ix.data[3 + ix.data[2]]>>>>,
        PROGRAM_ID)

\* the error of the first check that fails, or "valid"
FirstFailingCheck(ix) ==
    IF Len(ix.accounts) < 2 THEN "NotEnoughAccountKeys"
    ELSE IF ~ix.accounts[1].is_signer THEN "MissingRequiredSignature"
    ELSE IF ~ix.accounts[1].is_writable \/ ~ix.accounts[2].is_writable THEN "InvalidAccountData"
    ELSE IF ~HasSeedAndBump(ix) THEN "InvalidInstructionData"
    ELSE IF DerivedAddress(ix) # Some(ix.accounts[2].key) THEN "InvalidSeeds"
    ELSE "valid"

\* this step ran an Update or a Free
ProgramRan == Stepped /\ (IsUpdate(ThisIx) \/ IsFree(ThisIx))

\* C13: an Update or a Free whose accounts or seed fail a check returns the
\* error of the first failing check, in the order: fewer than two accounts,
\* payer not a signer, payer or store not writable, seed or bump bytes
\* missing, derived address other than the store account; the program has
\* then changed no account, and none is changed afterwards.
AccountValidation ==
    [][(ProgramRan /\ FirstFailingCheck(ThisIx) # "valid") =>
        /\ result' = FirstFailingCheck(ThisIx)
        /\ process_instruction(PROGRAM_ID, ThisIx.accounts, ThisIx.data, Accounts, Sysvar)
               = FailWith(FirstFailingCheck(ThisIx), Accounts)
        /\ log' = <<>>
        /\ signatures' = AtStart.signatures
        /\ payer' = AtStart.payer]_vars

\* a Free that names a payer who neither signs nor is writable, and spells
\* no seed, has failed on the signature and left a store of two digests
AccountValidationWitness ==
    /\ Len(tx) = 1
    /\ IsFree(tx[1])
    /\ Len(tx[1].accounts) = 4
    /\ ~tx[1].accounts[1].is_signer
    /\ ~tx[1].accounts[1].is_writable
    /\ ~tx[1].accounts[2].is_writable
    /\ tx[1].data = <<1>>
    /\ result = "MissingRequiredSignature"
    /\ signatures.count = 2
    /\ signatures.owner = PROGRAM_ID
    /\ signatures.lamports = CreationCost

\* an Update that passes every check but the last, with a bump that is not
\* the one of the store account, has failed with InvalidSeeds
InvalidSeedsWitness ==
    /\ Len(tx) = 2
    /\ IsUpdate(tx[2])
    /\ tx[2].accounts = UpdateIx(None).accounts
    /\ tx[2].data = <<0, Len(SEED)>> \o SEED \o <<StoreBump - 1>>
    /\ result = "InvalidSeeds"

----------------------------------------------------------------------------
(* The calls of api.rs on any account data: buffers shorter than the       *)
(* header, with room for no, one and two slots, with any header and any    *)
(* slots, and enlarge callbacks that grow the buffer, leave it, or fail.   *)

ApiLens ==
    {0, HEAD_SIZE - 1, HEAD_SIZE, HEAD_SIZE + SIGHASH_SIZE - 1, HEAD_SIZE + SIGHASH_SIZE,
     TEST_DATA_LEN}

\* a slot holds a digest or zero bytes
ApiSlots == TestDigests \cup {0}

\* the buffers: data too short for a header has none, and the slots that
\* are spelled out fit the data and end with a digest
ApiAccounts ==
    {[lamports |-> U64(42), owner |-> PROGRAM_ID, len |-> n, epoch |-> e, count |-> c,
      slots |-> ss, fill |-> 0] :
        n \in ApiLens, e \in {EpochLe(0), EpochLe(2)}, c \in 0..MaxIndex,
        ss \in {xs \in SeqsUpTo(ApiSlots, 2) : xs = <<>> \/ xs[Len(xs)] # 0}}

ApiBuffer(acc) ==
    IF acc.len < HEAD_SIZE
    THEN acc.epoch = EpochLe(0) /\ acc.count = 0 /\ acc.slots = <<>>
    ELSE Len(acc.slots) <= Chunks(acc.len)

InitApi ==
    /\ entries = <<>>
    /\ data = None
    /\ parsed = None
    /\ payer = U64Zero
    /\ signatures \in {acc \in ApiAccounts : ApiBuffer(acc)}
    /\ tx = <<>>
    /\ donor = U64Zero
    /\ saved = <<>>
    /\ result = "start"
    /\ log = <<>>

\* the enlarge callbacks: the one of test_ed25519, one that returns Ok and
\* leaves the data as it is, and one that fails
EnlargeKinds == {"grow", "none", "fail"}

ApiEnlarge(kind, w) ==
    IF kind = "grow"
    THEN Done([w EXCEPT !.signatures.len = TEST_NEW_DATA_LEN, !.log = Append(@, <<"enlarge">>)])
    ELSE IF kind = "none" THEN Done([w EXCEPT !.log = Append(@, <<"enlarge">>)])
    ELSE FailWith("Custom", [w EXCEPT !.log = Append(@, <<"enlarge">>)])

\* each call leaves in the log what it was called with, what the call did
\* and, for the calls that return a value, the value
ApiReadCount ==
    \E want_epoch \in TestEpochs :
        LET r == read_count(signatures, want_epoch)
        IN  /\ result' = r.res
            /\ log' = <<<<"read_count", want_epoch, r>>>>
            /\ UNCHANGED <<entries, data, parsed, payer, signatures, donor, tx, saved>>

ApiFind ==
    \E signature \in ApiSlots :
        LET r == find_sighash(signatures, signature)
        IN  /\ result' = r.res
            /\ log' = <<<<"find", signature, r>>>>
            /\ UNCHANGED <<entries, data, parsed, payer, signatures, donor, tx, saved>>

ApiWriteCountAndSort ==
    \E epoch \in TestEpochs, count \in 0..(MaxIndex + 1) :
        LET r == write_count_and_sort(signatures, epoch, count)
        IN  /\ result' = r.res
            /\ signatures' = r.val
            /\ log' = <<<<"write_count_and_sort", epoch, count>>>>
            /\ UNCHANGED <<entries, data, parsed, payer, donor, tx, saved>>

ApiWriteSignature ==
    \E index \in 0..MaxIndex, signature \in TestDigests, kind \in EnlargeKinds :
        LET r == write_signature(World, index, signature, ApiEnlarge(kind, World))
        IN  /\ result' = r.res
            /\ signatures' = r.val.signatures
            /\ log' = <<<<"write_signature", index, signature, kind>>>> \o r.val.log
            /\ UNCHANGED <<entries, data, parsed, payer, donor, tx, saved>>

NextApi == ApiReadCount \/ ApiFind \/ ApiWriteCountAndSort \/ ApiWriteSignature

SpecApi == InitApi /\ [][NextApi]_vars

\* the call this step made
Called(name) == log' # <<>> /\ log'[1][1] = name

\* C14: read_count(None) returns the stored count; read_count(Some(e))
\* returns the stored count if e is the stored epoch and 0 if it is not,
\* whatever the stored count; on a header that was never written, which
\* holds epoch 0, read_count(Some(0)) returns the stored count; on data
\* shorter than the 12 bytes of the header it fails with
\* AccountDataTooSmall.
EpochGatedRead ==
    [][Called("read_count") =>
        /\ signatures' = signatures
        /\ signatures.len < HEAD_SIZE => log'[1][3] = Fail("AccountDataTooSmall")
        /\ signatures.len >= HEAD_SIZE =>
               /\ log'[1][2] = None => log'[1][3] = Done(signatures.count)
               /\ (log'[1][2] # None /\ Unwrap(log'[1][2]) = signatures.epoch) =>
                      log'[1][3] = Done(signatures.count)
               /\ (log'[1][2] # None /\ Unwrap(log'[1][2]) # signatures.epoch) =>
                      log'[1][3] = Done(0)
               /\ (log'[1][2] = Some(EpochLe(0)) /\ signatures.epoch = Fill(8, 0)) =>
                      log'[1][3] = Done(signatures.count)]_vars

\* read_count(Some(0)) has returned 0 on an account of epoch 2 that holds
\* three digests
EpochGatedReadWitness ==
    /\ log = <<<<"read_count", Some(EpochLe(0)), Done(0)>>>>
    /\ signatures.epoch = EpochLe(2)
    /\ signatures.count = 3
    /\ read_count(signatures, None) = Done(3)
    /\ read_count(signatures, Some(EpochLe(2))) = Done(3)

\* read_count has failed on data of 11 bytes
ShortHeaderWitness ==
    /\ log = <<<<"read_count", None, Fail("AccountDataTooSmall")>>>>
    /\ signatures.len = HEAD_SIZE - 1

\* how many of the first n slots hold a value
Occurrences(acc, n, v) == Cardinality({i \in 0..(n - 1) : SlotAt(acc, i) = v})

\* the slots from a 0-based index on are the same in two accounts
SameSlotsFrom(acc1, acc2, from) ==
    \A i \in from..(Chunks(acc1.len) - 1) : SlotAt(acc1, i) = SlotAt(acc2, i)

\* C15: after a successful write_count_and_sort(epoch, count) the slots
\* below count are non-decreasing and are a permutation of what they held,
\* the slots from count on are unchanged, the header holds count, and its
\* epoch is the one supplied, or unchanged if none was.
SortPostcondition ==
    [][(Called("write_count_and_sort") /\ result' = "Ok") =>
        /\ \A i \in 1..(log'[1][3] - 1) :
               SlotAt(signatures', i - 1) <= SlotAt(signatures', i)
        /\ \A v \in ApiSlots :
               Occurrences(signatures', log'[1][3], v) = Occurrences(signatures, log'[1][3], v)
        /\ SameSlotsFrom(signatures', signatures, log'[1][3])
        /\ signatures'.count = log'[1][3]
        /\ signatures'.epoch = IF log'[1][2] = None THEN signatures.epoch
                               ELSE Unwrap(log'[1][2])
        /\ signatures'.len = signatures.len]_vars

\* write_count_and_sort(Some(2), 2) has left two digests in order, epoch 2
\* in the header, and below them a third slot it did not sort
SortPostconditionWitness ==
    /\ log = <<<<"write_count_and_sort", Some(EpochLe(2)), 2>>>>
    /\ result = "Ok"
    /\ signatures.count = 2
    /\ signatures.epoch = EpochLe(2)
    /\ Len(signatures.slots) = 3
    /\ signatures.slots[1] # 0
    /\ signatures.slots[1] < signatures.slots[2]
    /\ signatures.slots[3] < signatures.slots[2]
    /\ signatures.slots[3] # 0

\* C16: write_count_and_sort fails with AccountDataTooSmall exactly when
\* the data is shorter than the header or holds fewer than count whole
\* slots after it, and then leaves the header and every slot as they were.
SortFailure ==
    [][Called("write_count_and_sort") =>
        /\ (\/ signatures.len < HEAD_SIZE
            \/ signatures.len < HEAD_SIZE + log'[1][3] * SIGHASH_SIZE)
               <=> result' = "AccountDataTooSmall"
        /\ result' \in {"Ok", "AccountDataTooSmall"}
        /\ result' # "Ok" => signatures' = signatures]_vars

\* write_count_and_sort(Some(0), 2) has failed on data with one whole slot
\* after the header, and has left its count of 3 and its epoch 2
SortFailureWitness ==
    /\ log = <<<<"write_count_and_sort", Some(EpochLe(0)), 2>>>>
    /\ result = "AccountDataTooSmall"
    /\ signatures.len = HEAD_SIZE + SIGHASH_SIZE
    /\ signatures.count = 3
    /\ signatures.epoch = EpochLe(2)
    /\ signatures.slots # <<>>

\* the bytes an account needs to hold the slot at an index
NeededLen(index) == HEAD_SIZE + (index + 1) * SIGHASH_SIZE

\* C17: write_signature(index, digest, enlarge) calls enlarge once, and
\* before it writes, if the account is shorter than 12 + (index + 1) * 32
\* bytes, and never if it is not; a successful call leaves the digest in
\* the slot at index and the header and every other slot as they were; if
\* the account is still too short after the callback the call fails with
\* AccountDataTooSmall, and if the callback fails the call returns its
\* error and writes nothing.
GrowOnDemand ==
    [][Called("write_signature") =>
        /\ Len(SelectSeq(log', IsEnlarge))
               = IF signatures.len < NeededLen(log'[1][2]) THEN 1 ELSE 0
        /\ SelectSeq(log', IsEnlarge) # <<>> => IsEnlarge(log'[2])
        /\ result' = "Ok" =>
               /\ log'[Len(log')] = <<"write", log'[1][2], log'[1][3]>>
               /\ Len(Writes(log')) = 1
               /\ signatures'.len >= NeededLen(log'[1][2])
               /\ SlotAt(signatures', log'[1][2]) = log'[1][3]
               /\ \A i \in 0..(Chunks(signatures'.len) - 1) :
                      i # log'[1][2] => SlotAt(signatures', i) = SlotAt(signatures, i)
               /\ signatures'.epoch = signatures.epoch
               /\ signatures'.count = signatures.count
        /\ (signatures.len < NeededLen(log'[1][2]) /\ log'[1][4] = "fail") =>
               /\ result' = "Custom"
               /\ Writes(log') = <<>>
               /\ signatures' = signatures
        /\ (log'[1][4] # "fail" /\ signatures'.len < NeededLen(log'[1][2])) =>
               /\ result' = "AccountDataTooSmall"
               /\ Writes(log') = <<>>
               /\ SameSlotsFrom(signatures', signatures, 0)
        /\ (log'[1][4] # "fail" /\ signatures'.len >= NeededLen(log'[1][2])) =>
               result' = "Ok"]_vars

\* write_signature at index 2 on an account of 76 bytes has called the
\* callback of test_ed25519 once and then written the digest
GrowOnDemandWitness ==
    /\ Len(log) = 3
    /\ log[1][1] = "write_signature"
    /\ log[1][2] = 2
    /\ log[1][4] = "grow"
    /\ log[2] = <<"enlarge">>
    /\ log[3] = <<"write", 2, log[1][3]>>
    /\ result = "Ok"
    /\ signatures.len = TEST_NEW_DATA_LEN
    /\ signatures.slots[3] = log[1][3]

\* write_signature at index 3 has called the callback, which returned Ok
\* with 108 bytes, and has failed for want of 140
StillTooShortWitness ==
    /\ Len(log) = 2
    /\ log[1][1] = "write_signature"
    /\ log[1][2] = 3
    /\ log[1][4] = "grow"
    /\ log[2] = <<"enlarge">>
    /\ result = "AccountDataTooSmall"
    /\ signatures.len = TEST_NEW_DATA_LEN

\* every slot of the account but the first n, and the epoch, replaced
Reshuffled(acc, n) ==
    {[acc EXCEPT !.epoch = e,
                 !.slots = FirstSlots(acc, n) \o rest,
                 !.fill = 0] :
        e \in {EpochLe(0), EpochLe(2)},
        rest \in {xs \in SeqsUpTo(ApiSlots, 2) : n + Len(xs) <= Chunks(acc.len)}}

\* C18: find_sighash fails with AccountDataTooSmall on data shorter than
\* the 12 bytes of the header and with InvalidAccountData when the stored
\* count exceeds the whole slots of the data; otherwise it answers, and its
\* answer is the same whatever the slots from count on and the epoch hold.
LookupFrame ==
    [][Called("find") =>
        /\ signatures.len < HEAD_SIZE => log'[1][3] = Fail("AccountDataTooSmall")
        /\ (signatures.len >= HEAD_SIZE
              /\ signatures.len < HEAD_SIZE + signatures.count * SIGHASH_SIZE) =>
               log'[1][3] = Fail("InvalidAccountData")
        /\ (signatures.len >= HEAD_SIZE
              /\ signatures.len >= HEAD_SIZE + signatures.count * SIGHASH_SIZE) =>
               /\ result' = "Ok"
               /\ log'[1][3].val \in BOOLEAN
               /\ log'[1][3].val => \E i \in 0..(signatures.count - 1) :
                                        SlotAt(signatures, i) = log'[1][2]
               /\ \A other \in Reshuffled(signatures, signatures.count) :
                      find_sighash(other, log'[1][2]) = log'[1][3]
        /\ signatures' = signatures]_vars

\* find has not found a digest that the account holds in a slot after the
\* count, and has found the one below it
LookupFrameWitness ==
    /\ Len(log) = 1
    /\ log[1][1] = "find"
    /\ log[1][3] = Done(FALSE)
    /\ signatures.count = 1
    /\ Len(signatures.slots) = 2
    /\ signatures.slots[2] = log[1][2]
    /\ find_sighash(signatures, signatures.slots[1]) = Done(TRUE)

\* find has failed on a count larger than the slots of the data
LookupCountWitness ==
    /\ Len(log) = 1
    /\ log[1][1] = "find"
    /\ log[1][3] = Fail("InvalidAccountData")
    /\ signatures.len = HEAD_SIZE + SIGHASH_SIZE
    /\ signatures.count = 2

----------------------------------------------------------------------------
(* new_instruction_data at its limits.  The entry lists are described by   *)
(* their shape: the number of entries, the length of the message of every  *)
(* entry but the last, and the length of the last message.  The encoder    *)
(* runs on the entries of that shape; the log keeps the shape and whether  *)
(* a payload came back, and of what length.                                *)

U8_MAX == 255

\* numbers of entries around u8::MAX
ShapeCounts == {0, 1, 2, U8_MAX - 1, U8_MAX, U8_MAX + 1}

\* lengths of the messages before the last
ShapeRests == {0, 1}

\* the last message that brings the capacity of n entries to u16::MAX
Room(n, rest) == U16_MAX - (2 + (OFF_SIZE + 64 + 32) * n) - rest * (n - 1)

\* lengths of the last message around that length and around u16::MAX
ShapeLasts(n, rest) ==
    {0, 1, Room(n, rest) - 1, Room(n, rest), Room(n, rest) + 1, U16_MAX, U16_MAX + 1}

Shapes ==
    {<<"entries", 0, 0, 0>>} \cup
    {<<"entries", n, rest, last>> :
        n \in ShapeCounts \ {0}, rest \in ShapeRests,
        last \in UNION {ShapeLasts(m, r) : m \in ShapeCounts \ {0}, r \in ShapeRests}}

ShapedEntries(shape) ==
    [i \in 1..shape[2] |->
        MkEntry(IF i % 2 = 0 THEN SigA ELSE SigB, KeyA,
                Fill(IF i = shape[2] THEN shape[4] ELSE shape[3], 7))]

InitShaped ==
    /\ entries = <<>>
    /\ data = None
    /\ parsed = None
    /\ result = "start"
    /\ payer = U64Zero
    /\ signatures = NoAccount
    /\ tx = <<>>
    /\ donor = U64Zero
    /\ saved = <<>>
    /\ log \in {<<shape>> : shape \in {sh \in Shapes : sh[4] \in ShapeLasts(sh[2], sh[3])}}

\* what new_instruction_data returned: nothing, or a payload of a length
Returned(out) == IF IsSome(out) THEN <<"Some", Len(Unwrap(out))>> ELSE <<"None">>

EncodeShaped ==
    /\ result = "start"
    /\ log' = Append(log, Returned(new_instruction_data(ShapedEntries(log[1]))))
    /\ result' = IF log'[2][1] = "Some" THEN "encoded" ELSE "rejected"
    /\ UNCHANGED <<entries, data, parsed, payer, signatures, donor, tx, saved>>

NextShaped == EncodeShaped

SpecShaped == InitShaped /\ [][NextShaped]_vars

\* the message bytes of n entries of a shape
MessageBytes(shape) == IF shape[2] = 0 THEN 0 ELSE shape[3] * (shape[2] - 1) + shape[4]

\* C19: new_instruction_data returns None exactly when there are more than
\* 255 entries, or a message is longer than 65535 bytes, or the size without
\* deduplication, 2 + 110 * n + the message bytes, exceeds 65535; None
\* comes with no payload at all, and every other list gets a payload.
EncoderRejection ==
    result # "start" =>
        LET shape == log[1]
            es == ShapedEntries(shape)
            n == Len(es)
            too_many == n > 255
            too_long == \E i \in 1..n : Len(es[i].message) > 65535
            too_large == 2 + 110 * n + MessageBytes(shape) > 65535
        IN  /\ n = shape[2]
            /\ \A i \in 1..n :
                   Len(es[i].message) = IF i = n THEN shape[4] ELSE shape[3]
            /\ (too_many \/ too_long \/ too_large) <=> log[2] = <<"None">>
            /\ log[2] = <<"None">> <=> result = "rejected"
            /\ result = "encoded" =>
                   /\ log[2][1] = "Some"
                   /\ log[2][2] >= 2 + OFF_SIZE * n
                   /\ log[2][2] <= 2 + 110 * n + MessageBytes(shape)

\* two entries whose messages each fit u16 were rejected because the
\* capacity does not
EncoderRejectionWitness ==
    /\ result = "rejected"
    /\ log[1][2] = 2
    /\ log[1][4] <= U16_MAX
    /\ 2 + 110 * 2 + log[1][3] + log[1][4] = U16_MAX + 1

\* 255 entries whose capacity is exactly u16::MAX were encoded
EncoderFullWitness ==
    /\ result = "encoded"
    /\ log[1][2] = U8_MAX
    /\ 2 + 110 * U8_MAX + MessageBytes(log[1]) = U16_MAX

\* 256 entries with empty messages were rejected
EncoderCountWitness ==
    /\ result = "rejected"
    /\ log[1] = <<"entries", U8_MAX + 1, 0, 0>>

----------------------------------------------------------------------------
(* What write_instruction_data appends after the offset records.           *)

IsPrefixOf(m, whole) ==
    /\ Len(m) <= Len(whole)
    /\ \A k \in 1..Len(m) : whole[k] = m[k]

\* the earlier entries whose message starts with the message of entry j
EarlierMessages(es, j) == {i \in 1..(j - 1) : IsPrefixOf(es[j].message, es[i].message)}

\* the earlier entries with the key of entry j
EarlierKeys(es, j) == {i \in 1..(j - 1) : es[i].pubkey = es[j].pubkey}

Least(S) == CHOOSE i \in S : \A k \in S : i <= k

\* the bytes the claim has entry j append
AppendedBy(es, j) ==
    (IF EarlierMessages(es, j) = {} THEN Len(es[j].message) ELSE 0)
        + SIGNATURE_SIZE
        + (IF EarlierKeys(es, j) = {} THEN PUBKEY_SIZE ELSE 0)

RECURSIVE AppendedBefore(_, _)
AppendedBefore(es, j) ==
    IF j <= 1 THEN 0 ELSE AppendedBefore(es, j - 1) + AppendedBy(es, j - 1)

\* the fields of the j-th offsets record of a payload
SignatureOffset(d, j) == U16FromLe(d[2 + OFF_SIZE * (j - 1) + 1], d[2 + OFF_SIZE * (j - 1) + 2])
PubkeyOffset(d, j) == U16FromLe(d[2 + OFF_SIZE * (j - 1) + 5], d[2 + OFF_SIZE * (j - 1) + 6])
MessageOffset(d, j) == U16FromLe(d[2 + OFF_SIZE * (j - 1) + 9], d[2 + OFF_SIZE * (j - 1) + 10])

\* the bytes of a payload at a 0-based offset
BytesAt(d, offset, n) == SubSeq(d, offset + 1, offset + n)

\* C20: for entry j the encoder appends the message only if no earlier
\* entry has a message that starts with it, and otherwise uses the message
\* offset of the first such entry; it always appends the 64 signature bytes;
\* it appends the 32 key bytes only if no earlier entry has the key.  The
\* payload is 2 + 14 * n bytes and the bytes appended, so that a message
\* that is a prefix of an earlier one is not copied again, and one that is
\* a prefix only of a later one is no reason for reuse.
DedupAndSize ==
    IsSome(data) =>
        LET d == Unwrap(data)
            n == Len(entries)
            head == 2 + OFF_SIZE * n
        IN  /\ Len(d) = head + AppendedBefore(entries, n + 1)
            /\ \A j \in 1..n :
                 LET start == head + AppendedBefore(entries, j)
                     e == entries[j]
                     fresh == EarlierMessages(entries, j) = {}
                     new_key == EarlierKeys(entries, j) = {}
                 IN  /\ MessageOffset(d, j) =
                            IF fresh THEN start
                            ELSE MessageOffset(d, Least(EarlierMessages(entries, j)))
                     /\ BytesAt(d, MessageOffset(d, j), Len(e.message)) = e.message
                     /\ SignatureOffset(d, j) = start + (IF fresh THEN Len(e.message) ELSE 0)
                     /\ BytesAt(d, SignatureOffset(d, j), SIGNATURE_SIZE) = e.signature
                     /\ PubkeyOffset(d, j) =
                            IF new_key THEN SignatureOffset(d, j) + SIGNATURE_SIZE
                            ELSE PubkeyOffset(d, Least(EarlierKeys(entries, j)))
                     /\ BytesAt(d, PubkeyOffset(d, j), PUBKEY_SIZE) = e.pubkey

\* the second entry reused the first two bytes of the first message and the
\* first key, and appended only its signature
DedupAndSizeWitness ==
    /\ IsSome(data)
    /\ Len(entries) = 2
    /\ entries[1].message = <<7, 8>>
    /\ entries[2].message = <<7>>
    /\ entries[2].pubkey = entries[1].pubkey
    /\ entries[2].signature # entries[1].signature
    /\ MessageOffset(Unwrap(data), 2) = MessageOffset(Unwrap(data), 1)
    /\ Len(Unwrap(data)) = 2 + OFF_SIZE * 2 + 2 + SIGNATURE_SIZE + PUBKEY_SIZE + SIGNATURE_SIZE

\* a message was copied in full although the message before it is its prefix
PrefixFirstWitness ==
    /\ IsSome(data)
    /\ Len(entries) = 2
    /\ entries[1].message = <<7>>
    /\ entries[2].message = <<7, 8>>
    /\ MessageOffset(Unwrap(data), 2) # MessageOffset(Unwrap(data), 1)
    /\ Len(Unwrap(data)) = WorstCase(entries) - PUBKEY_SIZE * (IF entries[1].pubkey = entries[2].pubkey THEN 1 ELSE 0)

----------------------------------------------------------------------------
(* parse_data and decode_entry on instruction data that no encoder wrote:  *)
(* payloads of the encoder with up to two fields replaced and the end cut  *)
(* off.                                                                    *)

\* the payloads that are damaged: no entry, one entry, two entries
DecodeBases == {Unwrap(new_instruction_data(<<>>)), Unwrap(new_instruction_data(<<E1>>)), TwoEntries}

\* 0-based offset of the record r (0-based) of a payload
RecordAt(r) == 2 + OFF_SIZE * r

\* a replacement of the count, of the second byte, or of a field of one of
\* the first two records: an instruction index, or an offset or a size
\* around the end of the payload
Damages(bytes) ==
    {<<0, <<>>>>, <<1, <<1>>>>}
    \cup {<<0, <<c>>>> : c \in 0..3}
    \cup UNION {
        {<<RecordAt(r) + 2, <<0, 0>>>>, <<RecordAt(r) + 6, <<0, 0>>>>,
         <<RecordAt(r) + 12, <<0, 0>>>>,
         <<RecordAt(r), U16ToLe(Len(bytes) - SIGNATURE_SIZE)>>,
         <<RecordAt(r), U16ToLe(Len(bytes) - SIGNATURE_SIZE + 1)>>,
         <<RecordAt(r) + 4, U16ToLe(Len(bytes) - PUBKEY_SIZE)>>,
         <<RecordAt(r) + 4, U16ToLe(Len(bytes) - PUBKEY_SIZE + 1)>>,
         <<RecordAt(r) + 8, U16ToLe(Len(bytes) - 1)>>,
         <<RecordAt(r) + 8, U16ToLe(Len(bytes))>>,
         <<RecordAt(r) + 8, U16ToLe(Len(bytes) + 1)>>,
         <<RecordAt(r) + 10, <<0, 0>>>>,
         <<RecordAt(r) + 10, U16ToLe(U16_MAX)>>} : r \in 0..1}

\* the lengths a payload is cut to
CutLens(bytes) ==
    {n \in {0, 1, 2, RecordAt(1) - 1, RecordAt(1), RecordAt(2) - 1, RecordAt(2),
            Len(bytes) - 1, Len(bytes)} : n <= Len(bytes)}

Received ==
    UNION {{SubSeq(Patch(Patch(bytes, d1[1], d1[2]), d2[1], d2[2]), 1, n) :
                d1 \in Damages(bytes), d2 \in Damages(bytes), n \in CutLens(bytes)} :
           bytes \in DecodeBases}

InitDecode ==
    /\ entries = <<>>
    /\ data \in {Some(bytes) : bytes \in Received}
    /\ parsed = None
    /\ result = "received"
    /\ Idle

\* parse_data and the iterator run to its end
ParseReceived ==
    /\ result = "received"
    /\ LET records == parse_data(Unwrap(data))
       IN  /\ parsed' = IF IsSome(records)
                        THEN Some(IterCollect(Unwrap(data), Unwrap(records)))
                        ELSE None
           /\ result' = IF IsSome(records) THEN "parsed" ELSE "BadData"
    /\ UNCHANGED <<entries, data, payer, signatures, donor, tx, saved, log>>

NextDecode == ParseReceived

SpecDecode == InitDecode /\ [][NextDecode]_vars

\* C21: parse_data fails with BadData exactly when the payload has fewer
\* than 2 bytes, or its second byte is not 0, or fewer than count whole
\* 14-byte records follow the two bytes, count being the first byte; in
\* every other case its iterator yields exactly count items, also when
\* count is 0 and when bytes follow the records.
WholePayloadFailure ==
    result # "received" =>
        LET d == Unwrap(data)
            malformed == \/ Len(d) < 2
                         \/ d[2] # 0
                         \/ Len(d) - 2 < 14 * d[1]
        IN  /\ malformed <=> result = "BadData"
            /\ ~malformed <=> result = "parsed"
            /\ result = "parsed" => IsSome(parsed) /\ Len(Unwrap(parsed)) = d[1]

\* a payload of two records announced one, with bytes after it, and the
\* iterator yielded one item
WholePayloadFailureWitness ==
    /\ result = "parsed"
    /\ Unwrap(data)[1] = 1
    /\ Len(Unwrap(data)) = Len(TwoEntries)
    /\ Len(Unwrap(parsed)) = 1

\* a payload announced 0 records before other bytes and yielded nothing
NoRecordWitness ==
    /\ result = "parsed"
    /\ Unwrap(data)[1] = 0
    /\ Len(Unwrap(data)) > 2
    /\ Unwrap(parsed) = <<>>

\* a payload with one byte less than its two records was refused
ShortOfRecordsWitness ==
    /\ result = "BadData"
    /\ Len(Unwrap(data)) = RecordAt(2) - 1
    /\ Unwrap(data)[1] = 2
    /\ Unwrap(data)[2] = 0

\* the u16 field at a 0-based offset of the j-th record of a payload
FieldAt(d, j, offset) == U16FromLe(d[RecordAt(j - 1) + offset + 1], d[RecordAt(j - 1) + offset + 2])

Foreign(d, j) ==
    \/ FieldAt(d, j, 2) # 65535
    \/ FieldAt(d, j, 6) # 65535
    \/ FieldAt(d, j, 12) # 65535

OutOfBounds(d, j) ==
    \/ FieldAt(d, j, 0) + 64 > Len(d)
    \/ FieldAt(d, j, 4) + 32 > Len(d)
    \/ FieldAt(d, j, 8) + FieldAt(d, j, 10) > Len(d)

\* C22: a record yields UnsupportedFeature if one of its three instruction
\* indices is not 0xFFFF, whatever its offsets; otherwise BadData if
\* signature_offset + 64, pubkey_offset + 32 or message_offset +
\* message_size exceeds the length of the payload; otherwise the entry of
\* the bytes at those offsets of the whole payload.  The result of a record
\* is a function of the payload and of that record alone.
PerRecordResult ==
    result = "parsed" =>
        LET d == Unwrap(data)
        IN  \A j \in 1..Len(Unwrap(parsed)) :
                LET item == Unwrap(parsed)[j]
                IN  /\ Foreign(d, j) <=> item = UnsupportedFeature
                    /\ (~Foreign(d, j) /\ OutOfBounds(d, j)) <=> item = BadData
                    /\ IF Foreign(d, j) \/ OutOfBounds(d, j)
                       THEN item.tag # "Ok"
                       ELSE item = Ok(MkEntry(BytesAt(d, FieldAt(d, j, 0), 64),
                                              BytesAt(d, FieldAt(d, j, 4), 32),
                                              BytesAt(d, FieldAt(d, j, 8), FieldAt(d, j, 10))))

\* a record with a foreign index and a signature past the end yielded
\* UnsupportedFeature, and the record after it its entry
PerRecordResultWitness ==
    /\ result = "parsed"
    /\ Len(Unwrap(parsed)) = 2
    /\ Foreign(Unwrap(data), 1)
    /\ OutOfBounds(Unwrap(data), 1)
    /\ Unwrap(parsed)[1] = UnsupportedFeature
    /\ Unwrap(parsed)[2] = Ok(E2)

\* a record whose message ends past the payload yielded BadData and the
\* record before it its entry
BadRecordWitness ==
    /\ result = "parsed"
    /\ Len(Unwrap(parsed)) = 2
    /\ Unwrap(parsed)[1] = Ok(E1)
    /\ Unwrap(parsed)[2] = BadData
    /\ FieldAt(Unwrap(data), 2, 8) + FieldAt(Unwrap(data), 2, 10) = Len(Unwrap(data)) + 1

\* a record with an empty message at the very end of the payload decoded
EmptyAtEndWitness ==
    /\ result = "parsed"
    /\ Len(Unwrap(parsed)) >= 1
    /\ FieldAt(Unwrap(data), 1, 8) = Len(Unwrap(data))
    /\ FieldAt(Unwrap(data), 1, 10) = 0
    /\ Unwrap(parsed)[1] = Ok(MkEntry(SigA, KeyA, <<>>))

----------------------------------------------------------------------------
(* A Verifier inside an instruction of another program.  `tx` holds the    *)
(* instructions before that instruction and `signatures` the account its   *)
(* caller hands to it; `data` is the verifier's native_data and `parsed`   *)
(* its sigverify_data; log[1] names the algorithm of the verifier and      *)
(* log[2] its last call.                                                   *)

VerifierAlgorithms == {"Ed25519", "Secp256k1"}

\* an entry no instruction and no account of this model holds
E3 == MkEntry(SigB, KeyB, <<7>>)

Queries == {E1, E2, E3}

\* a record whose message runs past the end of the data, then E2
BadRecordFirst == Patch(TwoEntries, 2 + 10, <<255, 255>>)

VerifierPayloads ==
    {TwoEntries, WithForeignRecord, WithBadRecord, BadRecordFirst, Truncated2,
     Unwrap(new_instruction_data(<<E2>>))}

\* the instruction before the one that verifies, if there is one
VerifierTransactions ==
    {<<>>} \cup
    {<<NativeIx(pid, bytes)>> :
        pid \in {ED25519_PROGRAM_ID, SECP256K1_PROGRAM_ID, OTHER_PROGRAM_ID},
        bytes \in VerifierPayloads}

\* a Signatures account as Update leaves it: the digests in order, and
\* after them what an earlier epoch left
StoreOf(digests, stale) ==
    [lamports |-> minimum_balance(HEAD_SIZE + SIGHASH_SIZE * (Len(digests) + Len(stale))),
     owner |-> PROGRAM_ID,
     len |-> HEAD_SIZE + SIGHASH_SIZE * (Len(digests) + Len(stale)),
     epoch |-> EpochLe(0), count |-> Len(digests),
     slots |-> sort_unstable(digests) \o stale, fill |-> 0]

\* the accounts handed to the verifier: Signatures accounts, the account
\* before it is created, and an account of another program
VerifierAccounts ==
    {StoreOf(<<>>, <<>>),
     StoreOf(<<DigestOf("Ed25519", E1)>>, <<DigestOf("Ed25519", E2)>>),
     StoreOf(<<DigestOf("Ed25519", E1), DigestOf("Ed25519", E2)>>, <<>>),
     StoreOf(<<DigestOf("Secp256k1", E2)>>, <<>>),
     NoAccount,
     [NoAccount EXCEPT !.owner = OTHER_PROGRAM_ID, !.len = HEAD_SIZE - 1,
                       !.lamports = minimum_balance(HEAD_SIZE - 1)]}

InitVerifier ==
    /\ entries = <<>>
    /\ data = None
    /\ parsed = None
    /\ payer = U64Zero
    /\ signatures \in VerifierAccounts
    /\ tx \in VerifierTransactions
    /\ donor = U64Zero
    /\ saved = <<>>
    /\ result = "start"
    /\ log \in {<<<<"Verifier", algo>>>> : algo \in VerifierAlgorithms}

SetIxSysvar ==
    \E key \in {SYSVAR_INSTRUCTIONS_ID, PAYER_KEY} :
        LET r == set_ix_sysvar(log[1][2], [key |-> key], Sysvar)
        IN  /\ result' = r.res
            /\ data' = IF r.res = "Ok" THEN r.val ELSE data
            /\ log' = <<log[1], <<"set_ix_sysvar", key>>>>
            /\ UNCHANGED <<entries, parsed, payer, signatures, donor, tx, saved>>

SetSigverifyAccount ==
    \E expected_owner \in {PROGRAM_ID, OTHER_PROGRAM_ID} :
        LET r == set_sigverify_account(signatures, expected_owner)
        IN  /\ result' = r.res
            /\ parsed' = IF r.res = "Ok" THEN r.val ELSE parsed
            /\ log' = <<log[1], <<"set_sigverify_account", expected_owner>>>>
            /\ UNCHANGED <<entries, data, payer, signatures, donor, tx, saved>>

Verify ==
    \E e \in Queries :
        LET r == verify(log[1][2], data, parsed, e.message, e.pubkey, e.signature)
        IN  /\ result' = r.res
            /\ log' = <<log[1], <<"verify", e, r>>>>
            /\ UNCHANGED <<entries, data, parsed, payer, signatures, donor, tx, saved>>

NextVerifier == SetIxSysvar \/ SetSigverifyAccount \/ Verify

SpecVerifier == InitVerifier /\ [][NextVerifier]_vars

\* this step was a call of the verifier
VerifierCalled(name) == Len(log') = 2 /\ log'[2][1] = name

\* what the records of the attached instruction data decode to; nothing if
\* no data is attached or parse_data refuses it
NativeItems ==
    IF IsSome(data) /\ IsSome(parse_data(Unwrap(data)))
    THEN IterCollect(Unwrap(data), Unwrap(parse_data(Unwrap(data))))
    ELSE <<>>

\* the records that are the entry, and those that are BadData
MatchingRecords(e) == {j \in 1..Len(NativeItems) : NativeItems[j] = Ok(e)}
BadRecords == {j \in 1..Len(NativeItems) : NativeItems[j] = BadData}

\* the attached instruction data holds a record equal to the entry
NativeHolds(e) == MatchingRecords(e) # {}

\* an account is attached and one of its first count slots is the digest of
\* the entry under the algorithm of the verifier
StoreHolds(e) ==
    /\ IsSome(parsed)
    /\ \E i \in 0..(Unwrap(parsed).count - 1) :
           /\ i < Chunks(Unwrap(parsed).len)
           /\ SlotAt(Unwrap(parsed), i) = DigestOf(log[1][2], e)

\* the scan of the attached instruction data ends in BadData: the data does
\* not parse, or a record is BadData and no record before it is the entry
NativeFatal(e) ==
    /\ IsSome(data)
    /\ \/ parse_data(Unwrap(data)) = None
       \/ \E j \in BadRecords : \A k \in MatchingRecords(e) : j < k

\* the attached account is no well-formed store
StoreMalformed ==
    /\ IsSome(parsed)
    /\ \/ Unwrap(parsed).len < HEAD_SIZE
       \/ Unwrap(parsed).count > Chunks(Unwrap(parsed).len)

OtherMagicWitness ==
    /\ Len(log) = 2
    /\ log[1][2] = "Ed25519"
    /\ log[2] = <<"verify", E2, Done(FALSE)>>
    /\ IsSome(parsed)
    /\ Unwrap(parsed).slots = <<DigestOf("Secp256k1", E2)>>

\* the digest of the entry is in the store after the first count slots
StaleSlotWitness ==
    /\ Len(log) = 2
    /\ log[2] = <<"verify", E2, Done(FALSE)>>
    /\ data = None
    /\ IsSome(parsed)
    /\ Unwrap(parsed).count = 1
    /\ Len(Unwrap(parsed).slots) = 2
    /\ Unwrap(parsed).slots[2] = DigestOf(log[1][2], E2)

\* nothing is attached
NothingAttachedWitness ==
    /\ Len(log) = 2
    /\ log[2] = <<"verify", E1, Done(FALSE)>>
    /\ data = None
    /\ parsed = None

\* the results of verify with another account, or none, attached
WithOtherStores(e) ==
    {verify(log[1][2], data, other, e.message, e.pubkey, e.signature) :
        other \in {None} \cup {Some(acc) : acc \in VerifierAccounts}}

\* the first record that is the entry or BadData, or 0
FirstDecisive(e) ==
    IF MatchingRecords(e) \cup BadRecords = {} THEN 0
    ELSE Least(MatchingRecords(e) \cup BadRecords)

\* C24: verify scans the attached payload first, in the order of its
\* records: at the first record equal to the triple it returns true,
\* whatever the later records and the store are; a BadData record before
\* any match, or a payload parse_data refuses, makes it return
\* Error::BadData, also when the attached store holds the digest; the
\* store decides only when the scan ends without a match.
NativeFirst ==
    [][(VerifierCalled("verify") /\ IsSome(data)) =>
        LET e == log'[2][2]
            r == log'[2][3]
            first == FirstDecisive(e)
        IN  /\ parse_data(Unwrap(data)) = None =>
                   r = Fail("BadData") /\ WithOtherStores(e) = {r}
            /\ (first # 0 /\ first \in MatchingRecords(e)) =>
                   r = Done(TRUE) /\ WithOtherStores(e) = {r}
            /\ (first # 0 /\ first \in BadRecords) =>
                   r = Fail("BadData") /\ WithOtherStores(e) = {r}
            /\ (parse_data(Unwrap(data)) # None /\ first = 0) =>
                   r = IF IsSome(parsed)
                       THEN check_sigverify_data(Unwrap(parsed), magic(log[1][2]), e)
                       ELSE Done(FALSE)]_vars

\* verify returned BadData for an entry whose digest the attached store
\* holds, because a record before the one that matches is BadData
NativeFirstWitness ==
    /\ Len(log) = 2
    /\ log[1][2] = "Ed25519"
    /\ log[2] = <<"verify", E2, Fail("BadData")>>
    /\ data = Some(BadRecordFirst)
    /\ NativeItems[2] = Ok(E2)
    /\ StoreHolds(E2)

\* verify returned true at the first record, before a BadData record, with
\* a store attached that does not hold the digest
FirstMatchWitness ==
    /\ Len(log) = 2
    /\ log[2] = <<"verify", E1, Done(TRUE)>>
    /\ data = Some(WithBadRecord)
    /\ NativeItems[2] = BadData
    /\ IsSome(parsed)
    /\ ~StoreHolds(E1)

\* the payload did not parse and the store holds the digest
UnparsedWitness ==
    /\ Len(log) = 2
    /\ log[2] = <<"verify", E1, Fail("BadData")>>
    /\ data = Some(Truncated2)
    /\ StoreHolds(E1)

\* the store answered after a scan without a match
StoreAfterScanWitness ==
    /\ Len(log) = 2
    /\ log[1][2] = "Ed25519"
    /\ log[2] = <<"verify", E1, Done(TRUE)>>
    /\ IsSome(data)
    /\ Len(NativeItems) = 1
    /\ StoreHolds(E1)

\* the records that decode to UnsupportedFeature and whose offsets address
\* the bytes of the entry
AddressedOnly(e) ==
    {j \in 1..Len(NativeItems) :
        /\ NativeItems[j] = UnsupportedFeature
        /\ decode_entry(Unwrap(data),
                        Patch(Patch(Patch(Unwrap(parse_data(Unwrap(data)))[j],
                                          2, U16ToLe(U16_MAX)),
                                    6, U16ToLe(U16_MAX)),
                              12, U16ToLe(U16_MAX))) = Ok(e)}

IsOkOrBad(item) == item # UnsupportedFeature

\* C25: a record of the attached payload that decodes to UnsupportedFeature
\* is skipped: verify fails only if the payload does not parse, a record
\* is BadData or the attached account is malformed, and what it returns is
\* what it returns for the payload without these records; a triple that the
\* payload holds only in such a record, and no attached store holds, gets
\* Ok(false).
UnsupportedSkipped ==
    [][VerifierCalled("verify") =>
        LET e == log'[2][2]
            r == log'[2][3]
        IN  /\ r.res # "Ok" =>
                \/ IsSome(data) /\ parse_data(Unwrap(data)) = None
                \/ BadRecords # {}
                \/ StoreMalformed
            /\ (IsSome(data) /\ parse_data(Unwrap(data)) # None) =>
                   NativeScan(SelectSeq(NativeItems, IsOkOrBad), 1, e)
                       = NativeScan(NativeItems, 1, e)
            /\ (/\ AddressedOnly(e) # {}
                /\ ~NativeHolds(e)
                /\ BadRecords = {}
                /\ ~StoreHolds(e)
                /\ ~StoreMalformed) => r = Done(FALSE)]_vars

\* E1 is in the payload only in a record whose signature is said to be in
\* another instruction, the store does not hold it, and verify says false
UnsupportedSkippedWitness ==
    /\ Len(log) = 2
    /\ log[1][2] = "Ed25519"
    /\ log[2] = <<"verify", E1, Done(FALSE)>>
    /\ data = Some(WithForeignRecord)
    /\ AddressedOnly(E1) = {2}
    /\ IsSome(parsed)
    /\ ~StoreHolds(E1)

\* the record after the skipped one matched
AfterSkippedWitness ==
    /\ Len(log) = 2
    /\ log[2] = <<"verify", E2, Done(TRUE)>>
    /\ data = Some(WithForeignRecord)
    /\ parsed = None

\* C26: set_ix_sysvar attaches the data of the instruction before the
\* current one only if that instruction calls the native program of the
\* verifier's algorithm, and fails with IncorrectProgramId if it calls
\* another; set_sigverify_account attaches the account only if its owner is
\* the expected owner and fails with InvalidAccountOwner otherwise; a call
\* that fails leaves both attached sources as they were.
AttachmentChecks ==
    [][/\ VerifierCalled("set_ix_sysvar") =>
            /\ result' = "Ok" <=>
                   /\ log'[2][2] = SYSVAR_INSTRUCTIONS_ID
                   /\ tx # <<>>
                   /\ tx[Len(tx)].program_id = program_id(log[1][2])
            /\ result' = "Ok" => data' = Some(tx[Len(tx)].data)
            /\ result' = "IncorrectProgramId" <=>
                   /\ log'[2][2] = SYSVAR_INSTRUCTIONS_ID
                   /\ tx # <<>>
                   /\ tx[Len(tx)].program_id # program_id(log[1][2])
            /\ result' # "Ok" => data' = data
            /\ parsed' = parsed
       /\ VerifierCalled("set_sigverify_account") =>
            /\ result' = "Ok" <=> signatures.owner = log'[2][2]
            /\ result' = "Ok" => parsed' = Some(signatures)
            /\ result' # "Ok" => result' = "InvalidAccountOwner" /\ parsed' = parsed
            /\ data' = data]_vars

\* with a store and a payload attached, set_sigverify_account with another
\* expected owner failed and left both
AttachmentChecksWitness ==
    /\ Len(log) = 2
    /\ log[2] = <<"set_sigverify_account", OTHER_PROGRAM_ID>>
    /\ result = "InvalidAccountOwner"
    /\ IsSome(data)
    /\ parsed = Some(signatures)
    /\ signatures.owner = PROGRAM_ID

\* set_ix_sysvar failed on an instruction of another native program and
\* left the attached store
WrongProgramWitness ==
    /\ Len(log) = 2
    /\ log[1][2] = "Ed25519"
    /\ log[2] = <<"set_ix_sysvar", SYSVAR_INSTRUCTIONS_ID>>
    /\ result = "IncorrectProgramId"
    /\ tx[1].program_id = SECP256K1_PROGRAM_ID
    /\ data = None
    /\ IsSome(parsed)

----------------------------------------------------------------------------
(* src/instruction.rs: UpdateIter.                                         *)

\* u16::saturating_sub and usize::saturating_sub
SaturatingSub(a, b) == IF a < b THEN 0 ELSE a - b

\* max_data_size without the seed taken off
max_data_size_ignoring_seed(seed_len, size) ==
    IF (IF size > U16_MAX THEN U16_MAX ELSE size) = 0 THEN 1
    ELSE IF size > U16_MAX THEN U16_MAX ELSE size

\* UpdateIter::max_data_size: the new value of the field max_data_size
max_data_size(seed_len, size) ==
    IF SaturatingSub(IF size > U16_MAX THEN U16_MAX ELSE size, seed_len) = 0 THEN 1
    ELSE SaturatingSub(IF size > U16_MAX THEN U16_MAX ELSE size, seed_len)

\* UpdateIter::new; the entries are handed to next
UpdateIter_new(native_program, sigverify_program, payer_key, seed, epoch) ==
    IF check_seed(seed) = None THEN Fail("MaxSeedLengthExceeded")
    ELSE IF update(sigverify_program, payer_key, seed, epoch).res # "Ok"
    THEN update(sigverify_program, payer_key, seed, epoch)
    ELSE Done([native_program |-> native_program,
               sigverify_instruction |-> update(sigverify_program, payer_key, seed, epoch).val[1],
               seed_len |-> Unwrap(check_seed(seed)),
               max_data_size |-> max_data_size(Unwrap(check_seed(seed)), 800)])

\* the closure of take_while with a limit that is never taken from
TakeStep_keeping_limit(entry, st) ==
    IF 14 + 64 + 32 + Len(entry.message) > st.limit THEN [st EXCEPT !.open = FALSE]
    ELSE [st EXCEPT !.count = @ + 1]

\* The closure of take_while on one entry: st holds the limit, the entries
\* counted, and whether the closure has not yet returned false.
TakeStep(entry, st) ==
    IF 14 + 64 + 32 + Len(entry.message) > st.limit THEN [st EXCEPT !.open = FALSE]
    ELSE [st EXCEPT !.limit = @ - (14 + 64 + 32 + Len(entry.message)), !.count = @ + 1]

\* take_while over the entries first..last, in order; it stops at the first
\* entry the closure refuses
RECURSIVE TakeWhile(_, _, _, _)
TakeWhile(es, first, last, st) ==
    IF ~st.open \/ first > last THEN st
    ELSE IF first = last THEN TakeStep(es[first], st)
    ELSE TakeWhile(es, (first + last) \div 2 + 1, last,
                   TakeWhile(es, first, (first + last) \div 2, st))

\* the whole list in the place of &self.entries[..count]
Consumed_whole(es, count) == es

\* &self.entries[count..] with one entry more taken off
Remaining_skipping_one(es, count) == SubSeq(es, count + 2, Len(es))

\* &self.entries[..count] and &self.entries[count..]
Consumed(es, count) == SubSeq(es, 1, count)
Remaining(es, count) == SubSeq(es, count + 1, Len(es))

\* count.max(1)
AtLeastOne(count) == IF count < 1 THEN 1 ELSE count

\* The end of UpdateIter::next, with count known: unwrap panics on None.
NextBatch(it, es, count) ==
    IF new_instruction(it.native_program, Consumed(es, count)) = None
    THEN [res |-> "panic", count |-> 0, pair |-> <<>>]
    ELSE [res |-> "Some", count |-> count,
          pair |-> <<Unwrap(new_instruction(it.native_program, Consumed(es, count))),
                     it.sigverify_instruction>>]

\* UpdateIter::next on the iterator `it` whose field entries is `es`: what
\* it returns, and how many entries it takes off self.entries
UpdateIter_next(it, es) ==
    IF es = <<>> THEN [res |-> "None", count |-> 0, pair |-> <<>>]
    ELSE NextBatch(it, es,
                   AtLeastOne(TakeWhile(es, 1, Len(es),
                                        [limit |-> SaturatingSub(it.max_data_size, 2),
                                         count |-> 0, open |-> TRUE]).count))

----------------------------------------------------------------------------
(* An UpdateIter from new to the end of its entries.  The entries are kept *)
(* in brief, <<signature byte, key byte, message length>>, and written out *)
(* for every call: `entries` is the field entries, `saved` the other       *)
(* fields, `parsed` what new was called with, `data` the size last handed  *)
(* to max_data_size, and log the last call.                                *)

\* the entry a brief stands for
EntryOf(brief) == MkEntry(Fill(SIGNATURE_SIZE, brief[1]), Fill(PUBKEY_SIZE, brief[2]), Fill(brief[3], 7))
EntriesOf(briefs) == [i \in 1..Len(briefs) |-> EntryOf(briefs[i])]

Briefs == {<<17, 1, 0>>, <<34, 1, 1>>, <<17, 2, 40>>}

\* short lists, the ten entries with messages of 40 bytes, more entries
\* than one instruction takes, and a message no instruction takes
BatchLists ==
    SeqsUpTo(Briefs, MaxEntries)
    \cup {[i \in 1..10 |-> <<17 + i, 1, 40>>],
          [i \in 1..(U8_MAX + 1) |-> <<17, 1, 0>>],
          <<<<17, 1, 1>>, <<17, 1, U16_MAX - 2 - 14 - 64 - 32 + 1>>>>}

\* the sizes handed to max_data_size: around one and two entries without
\* message, the 200 and the 800 of the documentation, and around u16::MAX
Budgets ==
    {0, 1, 2, 2 + 110, 2 + 110 + 1, 200, 2 + 2 * 110 - 1, 2 + 2 * 110, 2 + 2 * 110 + 1,
     2 + 2 * 110 + 2, 800, U16_MAX, U16_MAX + 1}

InitBatch ==
    /\ entries \in BatchLists
    /\ \E seed \in {<<>>, SEED}, epoch \in {None, Some(EpochLe(2))} :
          /\ parsed = [entries |-> entries, seed |-> seed, epoch |-> epoch]
          /\ saved = UpdateIter_new(ED25519_PROGRAM_ID, PROGRAM_ID, PAYER_KEY, seed, epoch).val
    /\ data = 800
    /\ result = "start"
    /\ log = <<>>
    /\ payer = U64Zero
    /\ signatures = NoAccount
    /\ tx = <<>>
    /\ donor = U64Zero

\* max_data_size is called before the first call of next
SetMaxDataSize ==
    /\ result \in {"start", "set"}
    /\ \E size \in Budgets :
          /\ saved' = [saved EXCEPT !.max_data_size = max_data_size(saved.seed_len, size)]
          /\ data' = size
          /\ log' = <<<<"max_data_size", size>>>>
    /\ result' = "set"
    /\ UNCHANGED <<entries, parsed, payer, signatures, donor, tx>>

Returns(r) ==
    /\ result' = r.res
    /\ entries' = Remaining(entries, r.count)
    /\ log' = <<<<"next", r.count, r.pair>>>>
    /\ UNCHANGED <<data, parsed, payer, signatures, donor, tx, saved>>

\* next; after a panic there is no iterator to call
BatchNext ==
    /\ result # "panic"
    /\ Returns(UpdateIter_next(saved, EntriesOf(entries)))

NextBatches == SetMaxDataSize \/ BatchNext

SpecBatch == InitBatch /\ [][NextBatches]_vars

\* this step is a call of next that returned a pair
Paired == log' # <<>> /\ log'[1][1] = "next" /\ result' = "Some"

\* 14 + 64 + 32 + message length, summed over the first n briefs
RECURSIVE AppendedSizes(_, _)
AppendedSizes(briefs, n) ==
    IF n = 0 THEN 0 ELSE AppendedSizes(briefs, n - 1) + 14 + 64 + 32 + briefs[n][3]

\* the size the batcher reckons for the first n of some briefs
Estimate(briefs, n) == 2 + AppendedSizes(briefs, n)

\* what the records of an instruction's data decode to
Decoded(bytes) == IterCollect(bytes, Unwrap(parse_data(bytes)))

AfterTheEndWitness ==
    /\ result = "None"
    /\ Len(parsed.entries) = 10
    /\ entries = <<>>

\* C28 as stated: every call of next with an entry left returns a pair
\* that takes at least one entry, with any entries and any budget, and
\* never panics.
ForwardProgress ==
    [][(log' # <<>> /\ log'[1][1] = "next" /\ entries # <<>>) =>
        /\ result' = "Some"
        /\ Len(entries') < Len(entries)]_vars

\* C29: a batch of two or more entries has an estimated size, 2 + the sum
\* of 14 + 64 + 32 + message length, of at most the size handed to
\* max_data_size, and the data of its verification instruction is no
\* longer than the estimate; only a batch of one entry exceeds the budget.
BudgetBound ==
    [][Paired =>
        /\ log'[1][2] >= 2 => Estimate(entries, log'[1][2]) <= data
        /\ Estimate(entries, log'[1][2]) > data => log'[1][2] = 1
        /\ Len(log'[1][3][1].data) <= Estimate(entries, log'[1][2])]_vars

\* with a budget of 200 a batch is one of the ten entries with messages of
\* 40 bytes
BudgetBoundWitness ==
    /\ result = "Some"
    /\ data = 200
    /\ Len(parsed.entries) = 10
    /\ Len(entries) = 5
    /\ log[1][2] = 1
    /\ Len(log[1][3][1].data) = 2 + 14 + 64 + 32 + 40

\* a batch of two entries that fill the budget to the byte
FullBatchWitness ==
    /\ result = "Some"
    /\ log[1][2] = 2
    /\ parsed.seed = <<>>
    /\ Estimate(SubSeq(parsed.entries, Len(parsed.entries) - Len(entries) - 1,
                       Len(parsed.entries)), 2) = data

\* a batch of one entry larger than the budget
OverBudgetWitness ==
    /\ result = "Some"
    /\ log[1][2] = 1
    /\ data = 2
    /\ Len(log[1][3][1].data) > data

EffectiveBudget ==
    IF (IF data > 65535 THEN 65535 ELSE data) - Len(parsed.seed) < 1 THEN 1
    ELSE (IF data > 65535 THEN 65535 ELSE data) - Len(parsed.seed)

DefaultBudgetWitness ==
    /\ result = "Some"
    /\ data = 800
    /\ parsed.seed = <<>>
    /\ Len(parsed.entries) = U8_MAX + 1
    /\ log[1][2] = 7

----------------------------------------------------------------------------
(* The wire between a client and the program: the client builds an Update  *)
(* or a Free instruction, the instruction may be replaced by one with      *)
(* other data, and the program runs it.  `parsed` holds what the client    *)
(* was asked for, `tx` the instruction on the wire, log the last call.     *)
(* The program runs every instruction in a transaction of its own, after a *)
(* call of the Ed25519 program, on a payer that can pay and an address     *)
(* that holds no account yet.                                              *)

\* seeds without a byte, of one and two bytes, and around the longest seed
\* and the 40 bytes of update's buffer
WireSeeds ==
    {<<>>, SEED, <<115, 0>>, Fill(29, 115), Fill(30, 115), Fill(31, 115),
     Fill(MAX_SEED_LEN, 115), Fill(MAX_SEED_LEN + 1, 115)}

WireEpochs == {None, Some(EpochLe(1)), Some(EpochLe(258))}

\* the bump update finds for the seed, if it finds one
FoundBump(seed) ==
    IF try_find_program_address(<<PAYER_KEY, seed>>, PROGRAM_ID) = None THEN {}
    ELSE {Unwrap(try_find_program_address(<<PAYER_KEY, seed>>, PROGRAM_ID))[2]}

\* what replaces the data of an instruction on the wire: nothing, another
\* tag, bytes added at the end, the last byte taken off
Tamperings == {<<"empty", 0>>, <<"tag", 2>>, <<"tag", 255>>, <<"add", 1>>, <<"add", 7>>,
               <<"add", 8>>, <<"add", 9>>, <<"cut", 1>>}

Tampered(bytes, how) ==
    CASE how[1] = "empty" -> <<>>
      [] how[1] = "tag" -> <<how[2]>> \o Tail(bytes)
      [] how[1] = "add" -> bytes \o Fill(how[2], 1)
      [] how[1] = "cut" -> SubSeq(bytes, 1, Len(bytes) - 1)

InitWire ==
    /\ entries = <<>>
    /\ data = None
    /\ parsed = None
    /\ payer = Rich
    /\ signatures = NoAccount
    /\ donor = U64Zero
    /\ tx = <<>>
    /\ saved = <<>>
    /\ result = "idle"
    /\ log = <<>>

Built(name, args, r, ix) ==
    /\ parsed' = Some(args)
    /\ result' = r.res
    /\ tx' = IF r.res = "Ok" THEN <<ix>> ELSE <<>>
    /\ log' = <<name>>
    /\ UNCHANGED <<entries, data, payer, signatures, donor, saved>>

\* the calls of update and free of this model: free with the bump update
\* found or another one, and with or without the address of the account
UpdateCalls ==
    {[args |-> [seed |-> seed, epoch |-> epoch],
      r |-> update(PROGRAM_ID, PAYER_KEY, seed, epoch)] :
        seed \in WireSeeds, epoch \in WireEpochs}

FreeCalls ==
    UNION {{[args |-> [seed |-> seed, bump |-> bump, account |-> account],
             r |-> free(PROGRAM_ID, PAYER_KEY, account, seed, bump)] :
                account \in {None, Some(StoreKey)}, bump \in FoundBump(seed) \cup {0, 255}} :
            seed \in WireSeeds}

\* the client calls update
ClientUpdate == \E call \in UpdateCalls : Built("update", call.args, call.r, call.r.val[1])

\* the client calls free
ClientFree == \E call \in FreeCalls : Built("free", call.args, call.r, call.r.val)

\* other data takes the place of the data the client wrote
Tamper ==
    /\ tx # <<>>
    /\ log \in {<<"update">>, <<"free">>}
    /\ \E how \in Tamperings :
          /\ tx' = <<[tx[1] EXCEPT !.data = Tampered(@, how)]>>
          /\ log' = <<"tamper", log[1], how>>
    /\ UNCHANGED <<entries, data, parsed, payer, signatures, donor, saved, result>>

\* the transaction the instruction on the wire is run in
WireSysvar == [instructions |-> <<NativeIx(ED25519_PROGRAM_ID, TwoEntries)>>, current |-> 1]

Ran(r) ==
    /\ result' = r.res
    /\ log' = <<"run", log, r.val.log>>
    /\ tx' = <<>>
    /\ UNCHANGED <<entries, data, parsed, payer, signatures, donor, saved>>

\* the program runs the instruction on the wire
ProgramRun ==
    /\ tx # <<>>
    /\ Ran(entrypoint(PROGRAM_ID, tx[1].accounts, tx[1].data, Accounts, WireSysvar))

NextWire == ClientUpdate \/ ClientFree \/ Tamper \/ ProgramRun

SpecWire == InitWire /\ [][NextWire]_vars

\* C31 as stated: for a seed of at most 31 bytes and any epoch update
\* returns Ok and the data is 0, the length of the seed, the seed, the bump
\* and then the 8 bytes of the epoch exactly when one is given; for a seed
\* of 32 bytes or more it returns MaxSeedLengthExceeded; it never panics.
UpdateFormat ==
    log = <<"update">> =>
        /\ result # "panic"
        /\ Len(Unwrap(parsed).seed) >= MAX_SEED_LEN => result = "MaxSeedLengthExceeded"
        /\ Len(Unwrap(parsed).seed) < MAX_SEED_LEN =>
              /\ result = "Ok"
              /\ \E bump \in 0..255 :
                    tx[1].data = <<0, Len(Unwrap(parsed).seed)>> \o Unwrap(parsed).seed \o <<bump>>
                                 \o (IF Unwrap(parsed).epoch = None THEN <<>>
                                     ELSE Unwrap(Unwrap(parsed).epoch))

\* the same for the seeds and epochs that fit the 40 bytes of buf and the
\* seeds find_program_address takes
UpdateFormatWithinBuffer ==
    (/\ log = <<"update">>
     /\ Len(Unwrap(parsed).seed) <= MAX_SEED_LEN
     /\ Unwrap(parsed).epoch # None => Len(Unwrap(parsed).seed) < MAX_SEED_LEN - 2) =>
        /\ result # "panic"
        /\ Len(Unwrap(parsed).seed) >= MAX_SEED_LEN => result = "MaxSeedLengthExceeded"
        /\ Len(Unwrap(parsed).seed) < MAX_SEED_LEN =>
              /\ result = "Ok"
              /\ tx[1].data = <<0, Len(Unwrap(parsed).seed)>> \o Unwrap(parsed).seed
                              \o <<find_program_address(<<PAYER_KEY, Unwrap(parsed).seed>>,
                                                        PROGRAM_ID)[2]>>
                              \o (IF Unwrap(parsed).epoch = None THEN <<>>
                                  ELSE Unwrap(Unwrap(parsed).epoch))

\* update panicked on a seed of 31 bytes with an epoch
UpdatePanicWitness ==
    /\ log = <<"update">>
    /\ result = "panic"
    /\ Len(Unwrap(parsed).seed) = MAX_SEED_LEN - 1
    /\ Unwrap(parsed).epoch # None

\* update panicked on a seed of 33 bytes
LongSeedPanicWitness ==
    /\ log = <<"update">>
    /\ result = "panic"
    /\ Len(Unwrap(parsed).seed) = MAX_SEED_LEN + 1

----------------------------------------------------------------------------
(* The registry of algorithms, on the instructions of the protocol.        *)

\* the ids of the native programs of the registry
RegisteredIds == {program_id(algo) : algo \in Algorithms}

\* C32: the magics of Ed25519, Secp256k1 and Secp256r1 are not zero and
\* differ from each other; from_id gives the magic of its own algorithm for
\* each of the three native program ids and None for every other program
\* id: the system program, and every other program an instruction of a
\* transaction calls.
MagicRegistry ==
    /\ \A a \in Algorithms, b \in Algorithms :
          /\ magic(a) # 0
          /\ magic(a) \in 1..2147483647
          /\ a # b => magic(a) # magic(b) /\ program_id(a) # program_id(b)
          /\ from_id(program_id(a)) = Some(magic(a))
    /\ from_id(SYSTEM_PROGRAM_ID) = None
    /\ \A i \in 1..Len(tx) :
          /\ tx[i].program_id \notin RegisteredIds => from_id(tx[i].program_id) = None
          /\ from_id(tx[i].program_id) # None =>
                \E a \in Algorithms : /\ tx[i].program_id = program_id(a)
                                      /\ from_id(tx[i].program_id) = Some(magic(a))

\* a transaction that called the Secp256r1 program, another program and the
\* system program
MagicRegistryWitness ==
    /\ Len(tx) = 3
    /\ tx[1].program_id = SECP256R1_PROGRAM_ID
    /\ tx[2].program_id = OTHER_PROGRAM_ID
    /\ tx[3].program_id = SYSTEM_PROGRAM_ID
    /\ from_id(tx[1].program_id) = Some(SECP256R1_MAGIC)
    /\ from_id(tx[3].program_id) = None

----------------------------------------------------------------------------
(* Digests of the same triple under different algorithms.                  *)

\* the tuples SigHash::new is called with in this model
HashTuples == {<<magic(a), e>> : a \in Algorithms, e \in Entries}

\* different tuples give different hash inputs and different digests, and
\* the digest is that of the input
InputsSeparate ==
    \A t \in HashTuples, u \in HashTuples :
        /\ SigHash_from_entry(t[1], t[2])
               = hashv(HashInput(t[1], t[2].pubkey, t[2].signature, t[2].message))
        /\ t # u =>
              /\ HashInput(t[1], t[2].pubkey, t[2].signature, t[2].message)
                     # HashInput(u[1], u[2].pubkey, u[2].signature, u[2].message)
              /\ SigHash_from_entry(t[1], t[2]) # SigHash_from_entry(u[1], u[2])

\* the step is no instruction that failed
NotFailed == ~(Stepped /\ result' # "Ok")

\* C33: the hash input magic ++ key ++ signature ++ message differs for
\* different tuples, and so do the digests, so that a triple under two
\* magics has two digests; a verifier of an algorithm, with the store
\* attached, comes to accept a triple only by a successful Update that
\* follows a call of the native program of that very algorithm carrying the
\* triple: what was aggregated through another algorithm's program it does
\* not report.
DigestSeparation ==
    [][/\ InputsSeparate
       /\ (NotFailed /\ signatures' # signatures) =>
             \A algo \in Algorithms, e \in {E1, E2} :
                 (Verified(algo, signatures', e) /\ ~Verified(algo, signatures, e)) =>
                     /\ UpdateSucceeded
                     /\ PrevIx.program_id = program_id(algo)
                     /\ Ok(e) \in Range(Records(PrevIx))]_vars

\* E1 and E2 were aggregated through the Ed25519 program only: the Ed25519
\* verifier accepts them, the verifiers of the other algorithms do not
DigestSeparationWitness ==
    /\ result = "Ok"
    /\ tx = <<NativeIx(ED25519_PROGRAM_ID, TwoEntries), UpdateIx(None)>>
    /\ signatures.count = 2
    /\ Verified("Ed25519", signatures, E1)
    /\ Verified("Ed25519", signatures, E2)
    /\ \A algo \in {"Secp256k1", "Secp256r1"}, e \in {E1, E2} : ~Verified(algo, signatures, e)

----------------------------------------------------------------------------
(* The Signatures account between the instructions of the protocol.        *)

\* C34: in every state the protocol reaches through Update and Free
\* instructions, those that failed having been undone, a Signatures account
\* the program owns has data of a length that is a positive multiple of
\* 10240 and at most 10485760, 12 + 32 * count is at most that length, and
\* its first count slots are in non-decreasing order.
StoreInvariant ==
    signatures.owner = PROGRAM_ID =>
        /\ signatures.len > 0
        /\ signatures.len % MAX_PERMITTED_DATA_INCREASE = 0
        /\ signatures.len <= MAX_PERMITTED_DATA_LENGTH
        /\ HEAD_SIZE + SIGHASH_SIZE * signatures.count <= signatures.len
        /\ Ordered(signatures)

\* an Update has made the account grow to 20480 bytes and sorted the 321
\* digests it holds, the last two of them written in this instruction
StoreInvariantWitness ==
    /\ result = "Ok"
    /\ tx # <<>>
    /\ IsUpdate(tx[Len(tx)])
    /\ signatures.owner = PROGRAM_ID
    /\ signatures.len = 2 * MAX_PERMITTED_DATA_INCREASE
    /\ signatures.count = Chunks(MAX_PERMITTED_DATA_INCREASE) + 2
    /\ saved.signatures.len = MAX_PERMITTED_DATA_INCREASE
    /\ \E i \in 1..(signatures.count - 1) : SlotAt(signatures, i - 1) < SlotAt(signatures, i)

\* an Update with another epoch has left two digests, in order, in an
\* account that held 319
StoreClearedWitness ==
    /\ result = "Ok"
    /\ signatures.owner = PROGRAM_ID
    /\ signatures.epoch = EpochLe(1)
    /\ signatures.count = 2
    /\ saved.signatures.count = Chunks(MAX_PERMITTED_DATA_INCREASE)
    /\ SlotAt(signatures, 0) < SlotAt(signatures, 1)

\* Free has given the account back and an Update has created it anew
StoreRecreatedWitness ==
    /\ result = "Ok"
    /\ Len(tx) = 3
    /\ IsFree(tx[1])
    /\ IsUpdate(tx[3])
    /\ saved.signatures.len = MAX_PERMITTED_DATA_LENGTH
    /\ signatures.owner = PROGRAM_ID
    /\ signatures.len = MAX_PERMITTED_DATA_INCREASE
    /\ signatures.count > 0

----------------------------------------------------------------------------
(* A client that aggregates the signatures of an entry list: it takes the  *)
(* pairs of an UpdateIter one after the other and sends each as a          *)
(* transaction of its two instructions.  `entries`, `saved` and `data` are *)
(* the iterator as in the specification of the batches, `parsed` is what   *)
(* the client started from, `tx` the pair that is yielded and not yet      *)
(* executed, payer and signatures the accounts on the chain.               *)

\* short lists, and a list that takes two batches with the budget of new
AggregateLists ==
    SeqsUpTo(Briefs, MaxEntries) \cup {[i \in 1..8 |-> <<i, 1, 0>>]}

\* one entry without message, two entries, and the budget of new
AggregateBudgets == {2 + 110, 2 + 2 * 110 + 2, 800}

\* no account; an account that holds E1 and E2 under epoch 0; the same
\* under epoch 1
AggregateStores ==
    {NoAccount, Filled(MAX_PERMITTED_DATA_INCREASE, 2),
     [Filled(MAX_PERMITTED_DATA_INCREASE, 2) EXCEPT !.epoch = EpochLe(1)]}

InitAggregate ==
    /\ entries \in AggregateLists
    /\ signatures \in AggregateStores
    /\ payer \in {U64Zero, Rich}
    /\ parsed = [entries |-> entries, seed |-> SEED, epoch |-> Some(EpochLe(1)),
                 stored |-> signatures]
    /\ saved = UpdateIter_new(ED25519_PROGRAM_ID, PROGRAM_ID, PAYER_KEY, SEED,
                              Some(EpochLe(1))).val
    /\ data = 800
    /\ result = "start"
    /\ log = <<>>
    /\ tx = <<>>
    /\ donor = U64Zero

\* max_data_size, before the first call of next
AggregateSetMaxDataSize ==
    /\ result \in {"start", "set"}
    /\ \E size \in AggregateBudgets :
          /\ saved' = [saved EXCEPT !.max_data_size = max_data_size(saved.seed_len, size)]
          /\ data' = size
          /\ log' = <<<<"max_data_size", size>>>>
    /\ result' = "set"
    /\ UNCHANGED <<entries, parsed, payer, signatures, donor, tx>>

Yields(r) ==
    /\ result' = r.res
    /\ entries' = Remaining(entries, r.count)
    /\ tx' = r.pair
    /\ log' = <<<<"next", r.count>>>>
    /\ UNCHANGED <<data, parsed, payer, signatures, donor, saved>>

\* the client calls next once the pair before is executed
AggregateNext ==
    /\ tx = <<>>
    /\ result \in {"start", "set", "Ok", "None"}
    /\ Yields(UpdateIter_next(saved, EntriesOf(entries)))

Executed(r) ==
    /\ result' = r.res
    /\ payer' = IF r.res = "Ok" THEN r.val.payer ELSE payer
    /\ signatures' = IF r.res = "Ok" THEN r.val.signatures ELSE signatures
    /\ log' = r.val.log
    /\ tx' = <<>>
    /\ UNCHANGED <<entries, data, parsed, donor, saved>>

\* the transaction of the pair runs: the native program has checked the
\* signatures, then the Update runs
ExecutePair ==
    /\ tx # <<>>
    /\ Executed(Run(tx[2], Run(tx[1], Accounts, [instructions |-> <<>>, current |-> 0]).val,
                    [instructions |-> <<tx[1]>>, current |-> 1]))

NextAggregate == AggregateSetMaxDataSize \/ AggregateNext \/ ExecutePair

SpecAggregate == InitAggregate /\ [][NextAggregate]_vars

\* the digest the Ed25519 program's call leaves for a brief
BriefDigest(brief) == DigestOf("Ed25519", EntryOf(brief))

\* how many entries of the list have been executed before this state
ExecutedBefore == Len(parsed.entries) - Len(entries) - Len(Records(tx[1]))

\* C35: the pairs of an UpdateIter for a list of entries and an epoch e
\* other than the one the account holds are executed in the order of the
\* iteration, each in a transaction of its own.  The first Update leaves
\* the epoch e and only the digests of its batch, every following one adds
\* the digests of its batch to those the account holds, and when the
\* iterator ends the stored epoch is e, the count is the number of entries
\* of the list and find is true for every entry of the list.
BatchedAggregation ==
    [][(/\ parsed.stored.epoch # Unwrap(parsed.epoch)
        /\ parsed.entries # <<>>) =>
          /\ (tx # <<>> /\ tx' = <<>> /\ result' = "Ok" /\ ExecutedBefore = 0) =>
                /\ signatures'.epoch = Unwrap(parsed.epoch)
                /\ signatures'.count = Len(Records(tx[1]))
                /\ \A d \in AllDigests :
                       Found(signatures', d) => d \in Range(Digests(tx[1]))
          /\ (tx # <<>> /\ tx' = <<>> /\ result' = "Ok" /\ ExecutedBefore > 0) =>
                /\ signatures'.epoch = signatures.epoch
                /\ signatures'.count = signatures.count + Len(Records(tx[1]))
                /\ \A i \in 1..ExecutedBefore :
                       Found(signatures', BriefDigest(parsed.entries[i]))
          /\ (tx # <<>> /\ tx' = <<>> /\ result' = "Ok") =>
                \A d \in Range(Digests(tx[1])) : Found(signatures', d)
          /\ result' = "None" =>
                /\ signatures'.epoch = Unwrap(parsed.epoch)
                /\ signatures'.count = Len(parsed.entries)
                /\ \A i \in 1..Len(parsed.entries) :
                       Found(signatures', BriefDigest(parsed.entries[i]))]_vars

\* three entries went in three transactions into an account that held E1
\* and E2 under another epoch; E1 is gone
BatchedAggregationWitness ==
    /\ result = "None"
    /\ Len(parsed.entries) = 3
    /\ parsed.stored.count = 2
    /\ parsed.stored.epoch = EpochLe(0)
    /\ data = 2 + 110
    /\ signatures.epoch = EpochLe(1)
    /\ signatures.count = 3
    /\ \A i \in 1..3 : Found(signatures, BriefDigest(parsed.entries[i]))
    /\ ~Found(signatures, DigestOf("Ed25519", E1))

\* eight entries went in two transactions, of seven and of one, into an
\* account the first of them created
TwoBatchesWitness ==
    /\ result = "Ok"
    /\ Len(parsed.entries) = 8
    /\ parsed.stored = NoAccount
    /\ entries = <<>>
    /\ tx = <<>>
    /\ data = 800
    /\ signatures.count = 8

\* this step is the program running the instruction on the wire
WireRan == log' # <<>> /\ log'[1] = "run"

\* the instruction on the wire is as the client built it, with the address
\* the client derived
AsBuilt(name) ==
    /\ tx # <<>>
    /\ log = <<name>>
    /\ name = "free" => Unwrap(parsed).account = None

\* the instruction on the wire is one the client built, with the address
\* it derived, and its data was replaced
AsTampered(name, how) ==
    /\ tx # <<>>
    /\ log = <<"tamper", name, how>>
    /\ name = "free" => Unwrap(parsed).account = None

\* the bump of the instruction the client built
WireBump ==
    IF "bump" \in DOMAIN Unwrap(parsed) THEN Unwrap(parsed).bump
    ELSE find_program_address(<<PAYER_KEY, Unwrap(parsed).seed>>, PROGRAM_ID)[2]

\* what Context::get makes of the instruction on the wire
WireContext == Context_get(PROGRAM_ID, tx[1].accounts, Tail(tx[1].data))

\* C36: the program parses an instruction that update or free built for a
\* payer, a seed, a bump and an epoch into the same seed, bump and epoch;
\* the address the client derived from the seeds payer, seed, bump is the
\* one the program derives from payer, seed ++ bump, so that the address
\* check passes; tag 0 is run as Update and tag 1 as Free.  With empty
\* data, another tag, bytes after the bump of a Free, or a number of bytes
\* other than 0 or 8 after the bump of an Update, the program fails with
\* InvalidInstructionData.
WireAgreement ==
    [][WireRan =>
        /\ (AsBuilt("update") \/ AsBuilt("free")) =>
              /\ WireContext.res = "Ok"
              /\ WireContext.val.seed_and_bump = Unwrap(parsed).seed \o <<WireBump>>
              /\ Some(tx[1].accounts[2].key)
                     = create_program_address(<<PAYER_KEY, Unwrap(parsed).seed, <<WireBump>>>>,
                                              PROGRAM_ID)
              /\ Some(tx[1].accounts[2].key)
                     = create_program_address(
                           write_seeds(PAYER_KEY, Unwrap(parsed).seed \o <<WireBump>>),
                           PROGRAM_ID)
              /\ result' = "Ok"
        /\ AsBuilt("update") =>
              /\ tx[1].data[1] = 0
              /\ ReadEpoch(WireContext.val.instruction) = Done(Unwrap(parsed).epoch)
              /\ Head(log'[3]) = <<"create_account", MAX_PERMITTED_DATA_INCREASE>>
              /\ log'[3][Len(log'[3])] = <<"write_count_and_sort", 2>>
        /\ AsBuilt("free") =>
              /\ tx[1].data[1] = 1
              /\ WireContext.val.instruction = <<>>
              /\ log'[3] = <<<<"free">>>>
        /\ \A name \in {"update", "free"}, how \in Tamperings :
              (/\ AsTampered(name, how)
               /\ \/ how[1] \in {"empty", "tag", "cut"}
                  \/ name = "free"
                  \/ Len(tx[1].data) - (3 + Len(Unwrap(parsed).seed)) \notin {0, 8})
                  => /\ result' = "InvalidInstructionData"
                     /\ log'[3] = <<>>]_vars

\* the program has run an Update built for a seed of 29 bytes and an epoch
WireAgreementWitness ==
    /\ log # <<>>
    /\ log[1] = "run"
    /\ log[2] = <<"update">>
    /\ result = "Ok"
    /\ Len(Unwrap(parsed).seed) = 29
    /\ Unwrap(parsed).epoch = Some(EpochLe(258))

\* the program has run a Free built with a bump other than the one update
\* finds, for the address of that bump
OtherBumpWitness ==
    /\ log # <<>>
    /\ log[1] = "run"
    /\ log[2] = <<"free">>
    /\ result = "Ok"
    /\ Unwrap(parsed).account = None
    /\ Unwrap(parsed).bump \notin FoundBump(Unwrap(parsed).seed)

\* an Update built without an epoch got 8 bytes more and ran as an Update
\* with an epoch
EightBytesWitness ==
    /\ log # <<>>
    /\ log[1] = "run"
    /\ log[2] = <<"tamper", "update", <<"add", 8>>>>
    /\ Unwrap(parsed).epoch = None
    /\ result = "Ok"

\* a Free with a byte after the bump was refused
TrailingByteWitness ==
    /\ log # <<>>
    /\ log[1] = "run"
    /\ log[2] = <<"tamper", "free", <<"add", 1>>>>
    /\ Unwrap(parsed).account = None
    /\ result = "InvalidInstructionData"

----------------------------------------------------------------------------
(* Growth and the balances                                                  *)

\* the lamports an account of the next size lacks
Shortfall(acc) ==
    saturating_sub(
        minimum_balance(Min(acc.len + MAX_PERMITTED_DATA_INCREASE, MAX_PERMITTED_DATA_LENGTH)),
        acc.lamports)

\* the event that follows the enlarge event of the log
AfterEnlarge(events) ==
    LET i == CHOOSE i \in 1..Len(events) : IsEnlarge(events[i])
    IN  IF i = Len(events) THEN <<>> ELSE events[i + 1]

\* C37: enlarge_signatures_account on a store below the largest size first
\* transfers what the balance lacks of the rent-exempt minimum of the new
\* size and then resizes; when the payer cannot pay, the call fails with the
\* size, the balances and the data as they were, and so does the Update;
\* after an Update that succeeds the account holds at least the rent-exempt
\* minimum of its size, and the payer and the account together hold what
\* they held before the instruction.
GrowthAtomic ==
    [][/\ (IsStore(signatures) /\ signatures.len < MAX_PERMITTED_DATA_LENGTH) =>
              IF U64Less(payer, Shortfall(signatures))
              THEN /\ enlarge_signatures_account(Accounts)
                          = FailWith("InsufficientFunds",
                                     [Accounts EXCEPT !.log = <<<<"enlarge">>>>])
                   /\ (UpdateRan /\ SelectSeq(log', IsEnlarge) # <<>>) =>
                          /\ result' = "InsufficientFunds"
                          /\ AfterEnlarge(log') = <<>>
                          /\ signatures' = AtStart.signatures
                          /\ payer' = AtStart.payer
              ELSE /\ enlarge_signatures_account(Accounts).res = "Ok"
                   /\ enlarge_signatures_account(Accounts).val.signatures.len
                          = signatures.len + MAX_PERMITTED_DATA_INCREASE
                   /\ (UpdateRan /\ SelectSeq(log', IsEnlarge) # <<>>
                           /\ Shortfall(signatures) # U64Zero) =>
                          AfterEnlarge(log') = <<"transfer", Shortfall(signatures)>>
       /\ UpdateSucceeded =>
              /\ ~U64Less(signatures'.lamports, minimum_balance(signatures'.len))
              /\ U64Sum(payer', signatures'.lamports) = U64Sum(payer, signatures.lamports)]_vars

\* an Update that had to enlarge the account failed because the payer could
\* not pay for the larger account, and the account is as it was
GrowthAtomicWitness ==
    /\ result = "InsufficientFunds"
    /\ tx = <<NativeIx(ED25519_PROGRAM_ID, TwoEntries), UpdateIx(None)>>
    /\ log # <<>>
    /\ log[Len(log)] = <<"enlarge">>
    /\ signatures.len = MAX_PERMITTED_DATA_INCREASE
    /\ signatures = saved.signatures

\* an Update has created the account out of the payer's balance
PaidCreationWitness ==
    /\ result = "Ok"
    /\ tx # <<>>
    /\ IsUpdate(tx[Len(tx)])
    /\ log # <<>>
    /\ Head(log) = <<"create_account", MAX_PERMITTED_DATA_INCREASE>>
    /\ signatures.lamports = minimum_balance(MAX_PERMITTED_DATA_INCREASE)

----------------------------------------------------------------------------
(* Update after an instruction of another program                           *)

\* the store an Update works on: the one it finds, or the one it creates
\* when there is no account and the payer can pay for it
StoreFor(acc, balance) ==
    IF IsStore(acc) THEN Some(acc)
    ELSE IF acc = NoAccount /\ ~U64Less(balance, minimum_balance(MAX_PERMITTED_DATA_INCREASE))
    THEN Some([NoAccount EXCEPT !.lamports = minimum_balance(MAX_PERMITTED_DATA_INCREASE),
                                !.owner = PROGRAM_ID,
                                !.len = MAX_PERMITTED_DATA_INCREASE])
    ELSE None

\* this step ran an Update right after an instruction of a program that is
\* no registered verification program
AfterOtherProgram == UpdateRan /\ tx # <<>> /\ from_id(PrevIx.program_id) = None

\* C38: an Update that follows an instruction of a program that is not a
\* registered verification program writes no digest; on a store, or where
\* it can create one, it succeeds; with no epoch or the stored epoch it
\* leaves the epoch, the count and the slots as they were, and with another
\* epoch it stores that epoch and the count 0.
UpdateAfterOtherProgram ==
    [][AfterOtherProgram =>
           /\ Writes(log') = <<>>
           /\ IsSome(StoreFor(signatures, payer)) <=> result' = "Ok"
           /\ result' = "Ok" =>
                  /\ log'[Len(log')][1] = "write_count_and_sort"
                  /\ IF \/ EpochOption(ThisIx) = None
                        \/ EpochOption(ThisIx) = Some(Unwrap(StoreFor(signatures, payer)).epoch)
                     THEN /\ signatures' = Unwrap(StoreFor(signatures, payer))
                          /\ log'[Len(log')][2] = signatures.count
                     ELSE /\ signatures'.count = 0
                          /\ signatures'.epoch = Unwrap(EpochOption(ThisIx))
                          /\ log'[Len(log')][2] = 0]_vars

\* an Update without an epoch ran after an instruction of the other program
\* and left the two digests of the store where they were
UpdateAfterOtherProgramWitness ==
    /\ Len(tx) >= 2
    /\ tx[Len(tx) - 1] = NativeIx(OTHER_PROGRAM_ID, TwoEntries)
    /\ tx[Len(tx)] = UpdateIx(None)
    /\ result = "Ok"
    /\ signatures.count = 2
    /\ log = <<<<"write_count_and_sort", 2>>>>

\* an Update with another epoch ran after a transfer of the system program
\* and cleared a store that held digests
ClearedAfterTransferWitness ==
    /\ Len(tx) >= 2
    /\ tx[Len(tx) - 1] = TransferIx(PAYER_KEY, Donation)
    /\ tx[Len(tx)] = UpdateIx(Some(EpochLe(1)))
    /\ result = "Ok"
    /\ saved.signatures.count > 0
    /\ signatures.count = 0
    /\ signatures.epoch = EpochLe(1)

\* an Update ran after a Free in one transaction and created the account anew
CreatedAfterFreeWitness ==
    /\ Len(tx) >= 2
    /\ tx[Len(tx) - 1] = FreeIx
    /\ IsUpdate(tx[Len(tx)])
    /\ result = "Ok"
    /\ log = <<<<"create_account", MAX_PERMITTED_DATA_INCREASE>>, <<"write_count_and_sort", 0>>>>

----------------------------------------------------------------------------
(* Soundness of the store                                                   *)

\* the digests in the slots the header counts
Held(acc) ==
    IF IsStore(acc) /\ acc.count <= Chunks(acc.len)
    THEN Range(FirstSlots(acc, acc.count))
    ELSE {}

\* the digests an Update keeps: those of the store it finds, unless it
\* carries an epoch other than the stored one
KeptBy(ix, acc) ==
    IF EpochOption(ix) \in {None, Some(acc.epoch)} THEN Held(acc) ELSE {}

\* the triples a verifier accepts on the store alone are those whose
\* digests the counted slots hold
OnlyHeld(acc) ==
    \A algo \in Algorithms, e \in Queries :
        Verified(algo, acc, e) => DigestOf(algo, e) \in Held(acc)

\* C39: from the start, where there is no account, a successful
\* Update leaves in the counted slots only digests it kept and digests of
\* the records that decode from the instruction of a registered
\* verification program right before it, and it keeps none when it changes
\* the epoch or creates the account; a successful instruction other than
\* Update adds none; a failed instruction leaves the store the transaction
\* started with; and a verifier with only the store attached accepts no
\* triple whose digest is not held.
StoreSoundness ==
    [][/\ UpdateSucceeded =>
              Held(signatures') \subseteq KeptBy(ThisIx, signatures) \cup Range(Digests(PrevIx))
       /\ (Stepped /\ result' = "Ok" /\ ~IsUpdate(ThisIx)) =>
              Held(signatures') \subseteq Held(signatures)
       /\ (Stepped /\ result' # "Ok") => signatures' = AtStart.signatures
       /\ ~Stepped => signatures' = signatures
       /\ signatures' # signatures => OnlyHeld(signatures')]_vars

\* an Update after a call of Secp256r1 with a record that points into
\* another instruction has stored the digest of the self-contained record
\* only, on top of a digest an earlier Update stored
StoreSoundnessWitness ==
    /\ Len(tx) >= 2
    /\ tx[Len(tx) - 1] = NativeIx(SECP256R1_PROGRAM_ID, WithForeignRecord)
    /\ tx[Len(tx)] = UpdateIx(None)
    /\ result = "Ok"
    /\ Held(signatures) \ Held(saved.signatures) # {}
    /\ Held(saved.signatures) # {}
    /\ Held(signatures) \subseteq Held(saved.signatures) \cup Range(Digests(tx[Len(tx) - 1]))
    /\ Len(Digests(tx[Len(tx) - 1])) < Len(Records(tx[Len(tx) - 1]))

\* an Update with another epoch has dropped the digests held and holds
\* those of the instruction before it
SoundAfterClearWitness ==
    /\ Len(tx) >= 2
    /\ tx[Len(tx)] = UpdateIx(Some(EpochLe(1)))
    /\ result = "Ok"
    /\ saved.signatures.epoch # EpochLe(1)
    /\ Held(saved.signatures) # {}
    /\ Held(signatures) # {}
    /\ Held(signatures) \cap Held(saved.signatures) = {}

----------------------------------------------------------------------------
(* Two payers.  The payer of the other specifications signs nothing here;   *)
(* another payer, with the key of the donor, signs Updates and Frees that   *)
(* name either payer and either store.  In this specification donor is the  *)
(* balance of the other payer and parsed is the account at the address      *)
(* derived from its key.                                                    *)

\* what update returns to the other payer: instruction, address and bump
OtherUpdate == update(PROGRAM_ID, DONOR_KEY, SEED, None).val
OtherStoreKey == OtherUpdate[2]
OtherStoreBump == OtherUpdate[3]

\* the first payer, who does not sign, and the other payer, who does
IsolatedPayers == {[AccountMeta(PAYER_KEY, FALSE) EXCEPT !.is_writable = w] : w \in BOOLEAN}
                      \cup {AccountMeta(DONOR_KEY, TRUE)}

\* Updates, with and without an epoch, and Frees as update and free build
\* them for the other payer, with either payer, either store and the bump
\* of either store
IsolatedInstructions ==
    {[program_id |-> PROGRAM_ID,
      accounts |-> <<p, AccountMeta(s, FALSE), AccountMeta(SYSVAR_INSTRUCTIONS_ID, FALSE),
                     AccountMeta(SYSTEM_PROGRAM_ID, FALSE)>>,
      data |-> <<tag, Len(SEED)>> \o SEED \o <<bump>> \o epoch] :
        p \in IsolatedPayers, s \in {StoreKey, OtherStoreKey},
        bump \in {StoreBump, OtherStoreBump},
        tag \in {0, 1}, epoch \in {<<>>, EpochLe(1)}}

InitIsolated ==
    /\ entries = <<>>
    /\ data = None
    /\ parsed = NoAccount
    /\ payer = Rich
    /\ signatures \in {NoAccount, Filled(MAX_PERMITTED_DATA_INCREASE, 2)}
    /\ donor = Rich
    /\ tx = <<>>
    /\ saved = <<>>
    /\ result = "idle"
    /\ log = <<>>

\* the accounts of the transaction
Ledger == [payer |-> payer, signatures |-> signatures, donor |-> donor, parsed |-> parsed]

\* the accounts the runtime hands to the program for the keys the
\* instruction names: the payer first, the Signatures account second
AccountsOf(ix) ==
    LET store == IF ix.accounts[2].key = StoreKey THEN signatures ELSE parsed
    IN  [payer |-> IF ix.accounts[1].key = PAYER_KEY THEN payer ELSE donor,
         signatures |-> store,
         original_data_len |-> store.len,
         log |-> <<>>]

\* the accounts as the instruction leaves them, each under its key
Stored(ix, w) ==
    [payer |-> IF ix.accounts[1].key = PAYER_KEY THEN w.payer ELSE payer,
     donor |-> IF ix.accounts[1].key = DONOR_KEY THEN w.payer ELSE donor,
     signatures |-> IF ix.accounts[2].key = StoreKey THEN w.signatures ELSE signatures,
     parsed |-> IF ix.accounts[2].key = StoreKey THEN parsed ELSE w.signatures]

\* the ledger after an instruction that returned r, in a transaction that
\* started with the ledger start
Booked(ix, r, start) ==
    LET after == IF r.res # "Ok" THEN start
                 ELSE IF ix.program_id = PROGRAM_ID THEN Stored(ix, r.val)
                 ELSE Ledger
    IN  /\ r.res = "Ok" => after.parsed.count <= MaxCount /\ after.signatures.count <= MaxCount
        /\ tx' = Append(tx, ix)
        /\ result' = r.res
        /\ log' = r.val.log
        /\ saved' = start
        /\ payer' = after.payer
        /\ signatures' = after.signatures
        /\ donor' = after.donor
        /\ parsed' = after.parsed

\* the next instruction of a transaction the other payer signs
ExecIsolated(ix) ==
    /\ result \in {"idle", "Ok"}
    /\ Len(tx) < MaxTxLen
    /\ Booked(ix,
              IF ix.program_id = PROGRAM_ID
              THEN entrypoint(PROGRAM_ID, ix.accounts, ix.data, AccountsOf(ix), Sysvar)
              ELSE Done([log |-> <<>>]),
              IF tx = <<>> THEN Ledger ELSE saved)
    /\ UNCHANGED <<entries, data>>

EndIsolated ==
    /\ tx # <<>>
    /\ tx' = <<>>
    /\ saved' = <<>>
    /\ result' = "idle"
    /\ log' = <<>>
    /\ UNCHANGED <<payer, signatures, donor, parsed, entries, data>>

NextIsolated ==
    \/ \E ix \in IsolatedInstructions \cup {NativeIx(ED25519_PROGRAM_ID, TwoEntries)} :
           ExecIsolated(ix)
    \/ EndIsolated

SpecIsolated == InitIsolated /\ [][NextIsolated]_vars

UnsignedPayerWitness ==
    /\ Len(tx) = 2
    /\ IsUpdate(tx[2])
    /\ tx[2].accounts[1].key = PAYER_KEY
    /\ tx[2].accounts[1].is_writable
    /\ tx[2].accounts[2].key = StoreKey
    /\ tx[2].data[Len(SEED) + 3] = StoreBump
    /\ result = "MissingRequiredSignature"
    /\ signatures = NoAccount

\* the other payer has freed its own store
OwnStoreFreedWitness ==
    /\ tx # <<>>
    /\ IsFree(tx[Len(tx)])
    /\ result = "Ok"
    /\ log = <<<<"free">>>>
    /\ parsed = NoAccount
    /\ signatures = Filled(MAX_PERMITTED_DATA_INCREASE, 2)

====
